---- MODULE Spec2Model ----
(***************************************************************************)
(* Packet framing of the MySQL client connection (packets.go): readPacket, *)
(* writePacket, the command writers and the sequence counter, over a byte  *)
(* level wire.  The socket, the writer loop and the server are the         *)
(* environment: the server appends physical packets to the inbound byte    *)
(* stream, the writer reports (n, err) for every write request.            *)
(***************************************************************************)
EXTENDS Integers, Sequences, FiniteSets, TLC

(***************************************************************************)
(* Bounds.  maxPacketSize is 2^24-1 in the driver; the model scales it     *)
(* down so that payloads below, at and above it can be enumerated byte by  *)
(* byte.  It stays larger than every single-packet command of the model.   *)
(***************************************************************************)
maxPacketSize == 40

\* logical packets exchanged between two resets of the sequence counter, and
\* how many of them the server sends (it sends first)
MaxBurst == 2
MaxRecv == 1

\* error values
nil == "nil"
ErrInvalidConn == "ErrInvalidConn"
ErrPktSync == "ErrPktSync"
ErrPktSyncMul == "ErrPktSyncMul"
ErrPktTooLarge == "ErrPktTooLarge"
errBadConnNoWrite == "errBadConnNoWrite"
ctxCanceled == "context.Canceled"

VARIABLES
    sequence,          \* mc.sequence, a uint8
    closed,            \* mc.closed / mc.closech: the connection was torn down
    canceled,          \* mc.canceled: nil or the cancellation error
    maxAllowedPacket,  \* mc.maxAllowedPacket, the server's limit
    inbound,           \* bytes sent by the server and not yet consumed by readNext
    buflength,         \* mc.buf.length: buffered bytes not yet consumed
    burst,             \* logical packets exchanged since the last reset
    wpc,               \* position of the watcher goroutine
    query,             \* the command in flight is a COM_QUERY
    last,              \* the last operation of the foreground and its outcome
    fpc,               \* position of a context-bearing operation of the foreground
    opn,               \* number of the operation in flight, or of the last one
    silent,            \* the server never replies to the operation in flight
    ops,               \* per operation: its context, handle, finished signal, result
    chCtx,             \* mc.chCtx: the handles sent and not yet received
    watching,          \* the handle the watcher received last (0: none)
    status,            \* mc.status: the status flags the server sent last
    rows,              \* the rows object of the last query
    rejectReadOnly,    \* mc.cfg.RejectReadOnly
    rlast,             \* the last command or rows operation and its outcome
    bufcap,            \* cap(mc.buf.buf): the capacity of the primary buffer
    blast,             \* the last operation of the buffer and its outcome
    hs,                \* the connection phase: configuration, position, packets sent
    dec,               \* the last row sent by the server and what readRow made of it
    lp                 \* the reader loop, the writer loop and their channels

\* the variables of the packet layer and those of the context-bearing operations
pvars == <<sequence, maxAllowedPacket, inbound, buflength, burst, query, last>>
wvars == <<fpc, opn, silent, ops, chCtx, watching>>
rvars == <<status, rows, rejectReadOnly, rlast>>
bvars == <<bufcap, blast>>
nvars == <<hs, dec, lp>>

vars == <<sequence, closed, canceled, maxAllowedPacket, inbound, buflength, burst, wpc,
          query, last, fpc, opn, silent, ops, chCtx, watching, status, rows,
          rejectReadOnly, rlast, bufcap, blast, hs, dec, lp>>

----------------------------------------------------------------------------
(* Byte helpers *)

Drop(s, n) == SubSeq(s, n + 1, Len(s))
Take(s, n) == SubSeq(s, 1, n)

\* a payload of length L whose bytes are pairwise distinct by position
Payload(L) == [i \in 1..L |-> i % 251]

\* uint8 increment: mc.sequence++
seqIncMod128(seq) == (seq + 1) % 128
seqInc(seq) == (seq + 1) % 256

\* the 3 length bytes of a header, little endian (data[0], data[1], data[2])
lenBytes(pktLen) == <<pktLen % 256, (pktLen \div 256) % 256, (pktLen \div 65536) % 256>>

\* pktLen := int(uint32(data[0]) | uint32(data[1])<<8 | uint32(data[2])<<16)
headerPktLen(h) == h[1] + h[2] * 256 + h[3] * 65536

----------------------------------------------------------------------------
(* readPacket *)

\* mc.buf.readNext(n) on the inbound stream: call number c of this readPacket
\* fails when the plan says so; otherwise it waits for n bytes.
readNext(in, n, c, failAt) ==
    IF c = failAt THEN [st |-> "err", data |-> <<>>, rest |-> in]
    ELSE IF Len(in) < n THEN [st |-> "blocked", data |-> <<>>, rest |-> in]
    ELSE [st |-> "ok", data |-> Take(in, n), rest |-> Drop(in, n)]

\* the error of a header whose sequence byte is not the expected one
syncErrorSwapped(hseq, seq) == IF hseq > seq THEN ErrPktSync ELSE ErrPktSyncMul
syncError(hseq, seq) == IF hseq > seq THEN ErrPktSyncMul ELSE ErrPktSync

\* what readPacket does when readNext failed
readFailedNoClose(cerr, seq, in, hdrs) ==
    [st |-> "done", err |-> IF cerr # nil THEN cerr ELSE ErrInvalidConn, data |-> <<>>,
     seq |-> seq, rest |-> in, close |-> FALSE, hdrs |-> hdrs, ioerr |-> TRUE]
readFailed(cerr, seq, in, hdrs) ==
    IF cerr # nil
    THEN [st |-> "done", err |-> cerr, data |-> <<>>, seq |-> seq, rest |-> in,
          close |-> FALSE, hdrs |-> hdrs, ioerr |-> TRUE]
    ELSE [st |-> "done", err |-> ErrInvalidConn, data |-> <<>>, seq |-> seq, rest |-> in,
          close |-> TRUE, hdrs |-> hdrs, ioerr |-> TRUE]

\* a zero-length packet: malformed without accumulated fragments, else the end
emptyPacketAccepted(prev, hasPrev, seq, in, hdrs) ==
    [st |-> "done", err |-> nil, data |-> prev, seq |-> seq, rest |-> in,
     close |-> FALSE, hdrs |-> hdrs, ioerr |-> FALSE]
emptyPacket(prev, hasPrev, seq, in, hdrs) ==
    IF ~hasPrev
    THEN [st |-> "done", err |-> ErrInvalidConn, data |-> <<>>, seq |-> seq, rest |-> in,
          close |-> TRUE, hdrs |-> hdrs, ioerr |-> FALSE]
    ELSE [st |-> "done", err |-> nil, data |-> prev, seq |-> seq, rest |-> in,
          close |-> FALSE, hdrs |-> hdrs, ioerr |-> FALSE]

\* the outcome of readPacket with the header read by its last iteration (<<>>
\* when that read failed) and the value of mc.sequence it was compared with
withHeader(r, hdr, hexp) == r @@ [hdr |-> hdr, hexp |-> hexp]

\* the loop of readPacket.  prev/hasPrev: prevData and prevData != nil;
\* c: number of the next readNext call; hdrs: headers accepted so far.
RECURSIVE readPacketLoop(_, _, _, _, _, _, _, _)
readPacketLoop(in, seq, prev, hasPrev, c, failAt, cerr, hdrs) ==
    LET h == readNext(in, 4, c, failAt) IN
    IF h.st = "blocked" THEN [st |-> "blocked"]
    ELSE IF h.st = "err" THEN withHeader(readFailed(cerr, seq, in, hdrs), <<>>, seq)
    ELSE
      LET pktLen == headerPktLen(h.data) IN
      IF h.data[4] # seq
      THEN withHeader([st |-> "done", err |-> syncError(h.data[4], seq), data |-> <<>>,
                       seq |-> seq, rest |-> h.rest, close |-> TRUE, hdrs |-> hdrs,
                       ioerr |-> FALSE], h.data, seq)
      ELSE
        LET seq1 == seqInc(seq) IN
        IF pktLen = 0
        THEN withHeader(emptyPacket(prev, hasPrev, seq1, h.rest, hdrs + 1), h.data, seq)
        ELSE
          LET b == readNext(h.rest, pktLen, c + 1, failAt) IN
          IF b.st = "blocked" THEN [st |-> "blocked"]
          ELSE IF b.st = "err"
          THEN withHeader(readFailed(cerr, seq1, h.rest, hdrs + 1), h.data, seq)
          ELSE IF pktLen < maxPacketSize
          THEN withHeader([st |-> "done", err |-> nil, data |-> prev \o b.data,
                           seq |-> seq1, rest |-> b.rest, close |-> FALSE,
                           hdrs |-> hdrs + 1, ioerr |-> FALSE], h.data, seq)
          ELSE readPacketLoop(b.rest, seq1, prev \o b.data, TRUE, c + 2, failAt, cerr,
                              hdrs + 1)

readPacketRun(in, seq, failAt, cerr) ==
    readPacketLoop(in, seq, <<>>, FALSE, 1, failAt, cerr, 0)

----------------------------------------------------------------------------
(* writePacket *)

\* The foreground's view of the connection while a handler runs:
\*   seq     mc.sequence
\*   closed  mc.closed
\*   k       number of the next write request of this handler
\*   call    number of writePacket calls of this handler so far
\*   writes  the write requests handed to the writer loop, with their results
\*   closech a select of writePacket took its closech branch
Mc(seq, cl) == [seq |-> seq, closed |-> cl, k |-> 1, call |-> 0, writes |-> <<>>,
               closech |-> FALSE]

\* mc.cleanup(): idempotent teardown, sets the closed latch
cleanup(m) == [m EXCEPT !.closed = TRUE]

Min(a, b) == IF a < b THEN a ELSE b

\* writeLoop/writeSync: the writer goroutine passes the request to
\* netConn.Write and reports (n, err).  plan picks the socket's answer:
\* every write succeeds in full, except write number plan.at.
writerOutcome(req, k, plan) ==
    IF plan.kind = "closech" THEN [n |-> 0, err |-> FALSE, closech |-> TRUE]
    ELSE IF plan.kind = "ok" \/ k # plan.at
    THEN [n |-> Len(req), err |-> FALSE, closech |-> FALSE]
    ELSE [n |-> Min(plan.n, Len(req) - 1), err |-> plan.kind # "short", closech |-> FALSE]

\* the bytes sent on mc.writeReq for one physical packet: the whole slice
writeReq(d, size) == d

\* "Handle error" of writePacket
writeFailedNoCleanup(o, pktLen, d, m, cerr) ==
    IF ~o.err THEN [err |-> ErrInvalidConn, m |-> m]
    ELSE IF cerr # nil THEN [err |-> cerr, m |-> m]
    ELSE IF o.n = 0 /\ pktLen = Len(d) - 4 THEN [err |-> errBadConnNoWrite, m |-> m]
    ELSE [err |-> ErrInvalidConn, m |-> m]
writeFailed(o, pktLen, d, m, cerr) ==
    IF ~o.err THEN [err |-> ErrInvalidConn, m |-> cleanup(m)]
    ELSE IF cerr # nil THEN [err |-> cerr, m |-> m]
    ELSE IF o.n = 0 /\ pktLen = Len(d) - 4 THEN [err |-> errBadConnNoWrite, m |-> m]
    ELSE [err |-> ErrInvalidConn, m |-> cleanup(m)]

\* the loop of writePacket; data is the slice with its 4 reserved bytes
RECURSIVE writePacketLoop(_, _, _, _, _)
writePacketLoop(data, pktLen, m, plan, cerr) ==
    LET size == IF pktLen >= maxPacketSize THEN maxPacketSize ELSE pktLen
        d    == lenBytes(size) \o <<m.seq>> \o Drop(data, 4)
        req  == writeReq(d, size)
        o    == writerOutcome(req, m.k, plan)
        m1   == [m EXCEPT !.k = @ + 1,
                          !.writes = Append(@, [req |-> req, n |-> o.n, err |-> o.err,
                                                 size |-> size, call |-> m.call])]
    IN
    IF o.closech THEN [err |-> ErrInvalidConn, m |-> [m EXCEPT !.closech = TRUE]]
    ELSE IF ~o.err /\ o.n = 4 + size
    THEN LET m2 == [m1 EXCEPT !.seq = seqInc(@)] IN
         IF size # maxPacketSize THEN [err |-> nil, m |-> m2]
         ELSE writePacketLoop(Drop(d, size), pktLen - size, m2, plan, cerr)
    ELSE writeFailed(o, pktLen, d, m1, cerr)

tooLargeIgnored(pktLen, mAP) == FALSE
tooLarge(pktLen, mAP) == pktLen > mAP

writePacketRun(data, m, plan, cerr, mAP) ==
    LET pktLen == Len(data) - 4 IN
    IF tooLarge(pktLen, mAP) THEN [err |-> ErrPktTooLarge, m |-> m]
    ELSE writePacketLoop(data, pktLen, [m EXCEPT !.call = @ + 1], plan, cerr)

\* the 4 reserved header bytes followed by the payload
Reserve(payload) == <<0, 0, 0, 0>> \o payload

----------------------------------------------------------------------------
(* Framing buffer and command writers *)

ErrBusyBuffer == "ErrBusyBuffer"

\* takeBuffer / takeSmallBuffer / takeCompleteBuffer: refuse while bytes are buffered
takeBuffer(length) == IF length > 0 THEN ErrBusyBuffer ELSE nil

comQuit == 1
comQuery == 3
comPing == 14
comStmtExecute == 23
comStmtSendLongData == 24
comStmtClose == 25

\* stmt.id of the prepared statement of the model, as 4 little-endian bytes
stmtIdBytes == <<1, 0, 0, 0>>

\* mc.sequence = 0 at the start of a command
resetSkipped(m) == m
reset(m) == [m EXCEPT !.seq = 0]

writeCommandPacketRun(command, m, plan, cerr, mAP) ==
    writePacketRun(<<0, 0, 0, 0, command>>, reset(m), plan, cerr, mAP)

writeCommandPacketStrRun(command, arg, m, blen, plan, cerr, mAP) ==
    LET m0 == reset(m) IN
    IF takeBuffer(blen) # nil THEN [err |-> errBadConnNoWrite, m |-> m0]
    ELSE writePacketRun(<<0, 0, 0, 0, command>> \o arg, m0, plan, cerr, mAP)

writeCommandPacketUint32Run(command, arg, m, plan, cerr, mAP) ==
    writePacketRun(<<0, 0, 0, 0, command>> \o
                   <<arg % 256, (arg \div 256) % 256, (arg \div 65536) % 256,
                     (arg \div 16777216) % 256>>,
                   reset(m), plan, cerr, mAP)

writeAuthSwitchPacketReset(authData, m, blen, plan, cerr, mAP) ==
    IF takeBuffer(blen) # nil THEN [err |-> errBadConnNoWrite, m |-> m]
    ELSE writePacketRun(Reserve(authData), reset(m), plan, cerr, mAP)
writeAuthSwitchPacketRun(authData, m, blen, plan, cerr, mAP) ==
    IF takeBuffer(blen) # nil THEN [err |-> errBadConnNoWrite, m |-> m]
    ELSE writePacketRun(Reserve(authData), m, plan, cerr, mAP)

\* writeCommandLongData: the loop over the chunks of arg.  data holds the 4
\* header bytes, the 7 bytes command/stmtID/paramID and the unsent rest of arg.
RECURSIVE writeCommandLongDataLoop(_, _, _, _, _, _, _, _)
writeCommandLongDataLoop(data, argLen, pktLen0, paramID, m, plan, cerr, mAP) ==
    IF argLen <= 0 THEN [err |-> nil, m |-> reset(m)]
    ELSE
      LET maxLen == mAP - 1
          pktLen == IF 7 + argLen < maxLen THEN 7 + argLen ELSE pktLen0
          d == <<0, 0, 0, 0, comStmtSendLongData>> \o stmtIdBytes \o
               <<paramID % 256, (paramID \div 256) % 256>> \o Drop(data, 11)
          r == writePacketRun(Take(d, 4 + pktLen), reset(m), plan, cerr, mAP)
      IN
      IF r.err # nil THEN r
      ELSE writeCommandLongDataLoop(Drop(d, pktLen - 7), argLen - (pktLen - 7), pktLen,
                                    paramID, r.m, plan, cerr, mAP)

writeCommandLongDataRun(paramID, arg, m, plan, cerr, mAP) ==
    writeCommandLongDataLoop(<<0, 0, 0, 0, 0, 0, 0, 0, 0, 0, 0>> \o arg, Len(arg),
                             mAP - 1, paramID, m, plan, cerr, mAP)

----------------------------------------------------------------------------
(* writeExecutePacket, for arguments that are NULL, an int64, a byte slice *)
(* or a value of an unsupported type                                       *)

fieldTypeNULL == 6
fieldTypeLongLong == 8
fieldTypeString == 254

argNull == [kind |-> "null", v |-> 0]
argInt(v) == [kind |-> "int", v |-> v]
argBytes(n) == [kind |-> "bytes", v |-> n]
argOther == [kind |-> "other", v |-> 0]
\* []byte(nil)
argNilBytes == [kind |-> "nilbytes", v |-> 0]

errArgCount == "argument count mismatch"
errConvert == "cannot convert type"

\* 2^k for a bit of the NULL bitmap
Pow2(k) == CASE k = 0 -> 1 [] k = 1 -> 2 [] k = 2 -> 4 [] k = 3 -> 8
             [] k = 4 -> 16 [] k = 5 -> 32 [] k = 6 -> 64 [] OTHER -> 128

\* nullMask[i/8] |= 1 << (uint(i) & 7), for a bit that is not set yet
setNullBitOffset(mask, i) == [mask EXCEPT ![((i + 2) \div 8) + 1] = @ + Pow2((i + 2) % 8)]
setNullBit(mask, i) == [mask EXCEPT ![(i \div 8) + 1] = @ + Pow2(i % 8)]

\* binary.LittleEndian.PutUint64 of a non-negative value below 2^31
uint64ToBytes(v) ==
    <<v % 256, (v \div 256) % 256, (v \div 65536) % 256, (v \div 16777216) % 256, 0, 0, 0, 0>>

\* appendLengthEncodedInteger for lengths below 65536
lengthEncodedInteger(n) ==
    IF n < 251 THEN <<n>> ELSE <<252, n % 256, (n \div 256) % 256>>

\* the loop over the arguments: i is the 0-based index of the next argument,
\* b holds the NULL bitmap, the type bytes and the value bytes built so far
RECURSIVE writeExecuteArgs(_, _, _, _, _, _, _, _)
writeExecuteArgs(args, i, b, longDataSize, m, plan, cerr, mAP) ==
    IF i >= Len(args) THEN [err |-> nil, m |-> m, b |-> b]
    ELSE
      LET arg == args[i + 1] IN
      CASE arg.kind \in {"null", "nilbytes"} ->
             writeExecuteArgs(args, i + 1,
                 [b EXCEPT !.mask = setNullBit(@, i),
                           !.types = @ \o <<fieldTypeNULL, 0>>],
                 longDataSize, m, plan, cerr, mAP)
        [] arg.kind = "int" ->
             writeExecuteArgs(args, i + 1,
                 [b EXCEPT !.types = @ \o <<fieldTypeLongLong, 0>>,
                           !.values = @ \o uint64ToBytes(arg.v)],
                 longDataSize, m, plan, cerr, mAP)
        [] arg.kind = "bytes" ->
             IF arg.v < longDataSize
             THEN writeExecuteArgs(args, i + 1,
                     [b EXCEPT !.types = @ \o <<fieldTypeString, 0>>,
                               !.values = @ \o lengthEncodedInteger(arg.v) \o Payload(arg.v)],
                     longDataSize, m, plan, cerr, mAP)
             ELSE LET r == writeCommandLongDataRun(i, Payload(arg.v), m, plan, cerr, mAP) IN
                  IF r.err # nil THEN [err |-> r.err, m |-> r.m, b |-> b]
                  ELSE writeExecuteArgs(args, i + 1,
                          [b EXCEPT !.types = @ \o <<fieldTypeString, 0>>],
                          longDataSize, r.m, plan, cerr, mAP)
        [] OTHER -> [err |-> errConvert, m |-> m, b |-> b]

writeExecutePacketRun(args, paramCount, m, blen, plan, cerr, mAP) ==
    IF Len(args) # paramCount THEN [err |-> errArgCount, m |-> m]
    ELSE
      LET quot == mAP \div (paramCount + 1)
          longDataSize == IF quot < 64 THEN 64 ELSE quot
          m0 == reset(m)
          head == <<0, 0, 0, 0, comStmtExecute>> \o stmtIdBytes \o <<0>> \o <<1, 0, 0, 0>>
      IN
      IF takeBuffer(blen) # nil THEN [err |-> errBadConnNoWrite, m |-> m0]
      ELSE IF Len(args) = 0 THEN writePacketRun(head, m0, plan, cerr, mAP)
      ELSE
        LET a == writeExecuteArgs(args, 0,
                    [mask |-> [j \in 1..((Len(args) + 7) \div 8) |-> 0],
                     types |-> <<>>, values |-> <<>>],
                    longDataSize, m0, plan, cerr, mAP)
        IN
        IF a.err # nil THEN [err |-> a.err, m |-> a.m]
        ELSE writePacketRun(head \o a.b.mask \o <<1>> \o a.b.types \o a.b.values,
                            a.m, plan, cerr, mAP)

----------------------------------------------------------------------------
(* The server and the socket *)

\* the server's sequence number for a packet: in step, one ahead or one behind
Faults == {"none", "ahead", "behind"}
faultySeq(fault, seq) ==
    CASE fault = "ahead" -> seqInc(seq)
      [] fault = "behind" -> (seq + 255) % 256
      [] OTHER -> seq

\* A logical packet as the server frames it: full-size physical packets
\* followed by a shorter (maybe empty) one, sequence numbers counting up.
\* From physical packet number at on, the server's counter is off by fault.
RECURSIVE serverFrame(_, _, _, _, _)
serverFrame(p, seq, j, fault, at) ==
    LET s == IF j = at THEN faultySeq(fault, seq) ELSE seq IN
    IF Len(p) >= maxPacketSize
    THEN lenBytes(maxPacketSize) \o <<s>> \o Take(p, maxPacketSize)
         \o serverFrame(Drop(p, maxPacketSize), seqInc(s), j + 1, fault, at)
    ELSE lenBytes(Len(p)) \o <<s>> \o p

\* payload lengths around maxPacketSize and its multiples
Lens == {0, 1, maxPacketSize - 1, maxPacketSize, maxPacketSize + 1,
         2 * maxPacketSize, 2 * maxPacketSize + 1}

\* payload lengths of the server's packets
ServerLens == {0, 1, maxPacketSize, maxPacketSize + 1, 2 * maxPacketSize}

\* answers of the socket to the write requests of one handler: all succeed,
\* or write number at reports n bytes, with an error (err) or without (short).
\* In the kinds of CancelKinds the error of write number at comes from the
\* watcher, which tears the socket down while the write is in progress: the
\* handler then finds the canceled slot still empty (teardown) or already
\* written (canceled).
MaxAt == 2
CancelKinds == {"teardown", "canceled"}
PlanOk == [kind |-> "ok", at |-> 0, n |-> 0]
Plans == {PlanOk, [kind |-> "closech", at |-> 1, n |-> 0]}
         \cup [kind : {"err", "short"} \cup CancelKinds, at : 1..MaxAt, n : {0, 5}]

\* a closed socket fails every write with nothing written, or the select in
\* writePacket takes the closech branch; an open one never takes it.  The
\* watcher can interrupt a write only while it watches a context.
planAllowed(plan, cl, w) ==
    IF cl THEN plan.kind = "closech" \/ (plan.kind = "err" /\ plan.at = 1 /\ plan.n = 0)
    ELSE /\ plan.kind # "closech"
         /\ plan.kind \in CancelKinds => w = "select"

\* mc.canceled.Value() as the handler reads it after the failed write
seenCanceled(plan, c) == IF plan.kind = "canceled" THEN ctxCanceled ELSE c

\* the bytes that reached the wire
RECURSIVE Wire(_)
Wire(writes) ==
    IF writes = <<>> THEN <<>>
    ELSE Take(Head(writes).req, Head(writes).n) \o Wire(Tail(writes))

\* readNext calls of one readPacket that may fail (0: none fails)
MaxFailAt == 3

----------------------------------------------------------------------------
(* State machine *)

\* the record of a handler that returned: its name and argument, the state it
\* started from, the error it returned, the write requests it made with their
\* results and the counter of the writing side (wseq), and for readPacket the
\* payload, the headers accepted, whether readNext failed, the header read
\* last and the counter it was compared with
Last(op, arg, err, m, data, hdrs, ioerr, rerr, rseq, hdr, hexp) ==
    [op |-> op, arg |-> arg, seq0 |-> sequence, closed0 |-> closed,
     canceled0 |-> canceled, err |-> err, writes |-> m.writes,
     data |-> data, hdrs |-> hdrs, ioerr |-> ioerr, rerr |-> rerr, rseq |-> rseq,
     hdr |-> hdr, hexp |-> hexp, wseq |-> m.seq, closech |-> m.closech]

NoOp == [op |-> "none", arg |-> 0, seq0 |-> 0, closed0 |-> FALSE, canceled0 |-> nil,
         err |-> nil, writes |-> <<>>, data |-> <<>>, hdrs |-> 0,
         ioerr |-> FALSE, rerr |-> nil, rseq |-> 0, hdr |-> <<>>, hexp |-> 0,
         wseq |-> 0, closech |-> FALSE]

\* a connection after the handshake, or in the middle of a long result set
\* whose packets brought the counter close to its wrap-around
StartSeqs == {0, 254}

\* the context-bearing operations of one run, the capacity of mc.chCtx, and
\* the record of an operation that has not begun
MaxOps == 3
chCtxCap == 1
ErrBadConn == "driver.ErrBadConn"
noOps ==
    [n \in 1..MaxOps |-> [ctx |-> "none", reg |-> FALSE, fin |-> FALSE, res |-> "none",
                          kind |-> "none", undone |-> FALSE]]

MaxFill == 2

\* the sizes of the buffer: the initial one, the largest one that is kept
defaultBufSize == 4
maxCachedBufSize == 16
NoTook == [op |-> "none", n |-> 0, err |-> nil, cap0 |-> 0, length0 |-> 0,
           closed0 |-> FALSE, writes |-> <<>>]

\* a connection that is past its connection phase
NoHandshake ==
    [pc |-> "idle", tls0 |-> FALSE, tls |-> FALSE, fallback |-> FALSE, user |-> <<>>,
     flags |-> 0, err |-> nil, sent |-> <<>>, wrapped |-> FALSE, loop |-> "raw",
     direct |-> FALSE, stolen |-> FALSE, greeted |-> <<>>, got |-> <<>>,
     replied |-> <<>>]

\* no row was sent or decoded yet
NoRow ==
    [op |-> "none", binary |-> FALSE, columns |-> <<>>, vals |-> <<>>, data |-> <<>>,
     dest |-> <<>>, pos |-> 0, err |-> nil, ioerr |-> FALSE, count |-> 0,
     result |-> [affectedRows |-> <<>>, insertIds |-> <<>>],
     result0 |-> [affectedRows |-> <<>>, insertIds |-> <<>>],
     status0 |-> 0, me |-> [Number |-> 0, SQLState |-> <<>>, Message |-> <<>>]]

\* no server error, no rows object, no command or rows operation yet
noError == [Number |-> 0, SQLState |-> <<>>, Message |-> <<>>]
noRows == [mc |-> FALSE, done |-> FALSE, open |-> FALSE]
\* the loops at the start of a connection: the reader in netConn.Read, the
\* writer waiting for a request, the channels empty, closech open
NoLoops ==
    [closech |-> FALSE, rl |-> "Read", rres |-> "none", readRes |-> <<>>,
     wl |-> "recv", wdata |-> 0, wres |-> [n |-> 0, err |-> FALSE],
     writeReq |-> <<>>, writeRes |-> <<>>,
     fg |-> "idle", calls |-> 0, err |-> "none", via |-> "none",
     avail |-> FALSE, sent |-> 0]

NoDid ==
    [op |-> "none", err |-> nil, me |-> noError, closed0 |-> FALSE, canceled0 |-> nil,
     status0 |-> 0, rs0 |-> noRows, writes |-> <<>>, reads |-> 0, lastp |-> <<>>,
     ioerr |-> FALSE, rseq0 |-> 0, prev |-> nil, previo |-> FALSE, in0 |-> <<>>,
     fin |-> FALSE]

Init ==
    /\ sequence \in StartSeqs
    /\ query = (sequence # 0)
    /\ closed = FALSE
    /\ canceled = nil
    /\ maxAllowedPacket \in {maxPacketSize - 8, 2 * maxPacketSize + 1}
    /\ inbound = <<>>
    /\ buflength = 0
    /\ burst = 0
    /\ wpc = "select"
    /\ last = NoOp
    /\ fpc = "idle"
    /\ opn = 0
    /\ silent = FALSE
    /\ ops = noOps
    /\ chCtx = <<>>
    /\ watching = 0
    /\ status = 0
    /\ rows = noRows
    /\ rejectReadOnly = FALSE
    /\ rlast = NoDid
    /\ bufcap = defaultBufSize
    /\ blast = NoTook
    /\ hs = NoHandshake
    /\ dec = NoRow
    /\ lp = NoLoops

idle == last.op = "none"

\* the caller issues a command or sends a packet only after it has read the
\* server's previous packet to its end
canWrite == idle /\ inbound = <<>>

\* the outcome of a writing handler
wrote(op, arg, r, plan, cmd) ==
    /\ plan.kind \in CancelKinds => Len(r.m.writes) >= plan.at
    /\ sequence' = r.m.seq
    /\ closed' = (r.m.closed \/ plan.kind \in CancelKinds)
    /\ canceled' = seenCanceled(plan, canceled)
    /\ wpc' = CASE plan.kind = "teardown" -> "setslot"
                 [] plan.kind = "canceled" -> "recv"
                 [] OTHER -> wpc
    /\ query' = cmd
    /\ last' = Last(op, arg, r.err, r.m, <<>>, 0, FALSE, nil, 0, <<>>, 0)
    /\ UNCHANGED <<maxAllowedPacket, inbound, buflength>>
    /\ UNCHANGED <<wvars, rvars, bvars, nvars>>

\* mc.Close(): sets the closed latch and closes the socket
Close(cl) == TRUE

\* a connection is broken once it was closed or torn down
isBroken == closed

readPacket(failAt) ==
    LET r == readPacketRun(inbound, sequence, failAt, canceled) IN
    /\ idle
    /\ r.st = "done"
    /\ sequence' = r.seq
    /\ closed' = IF r.close THEN Close(closed) ELSE closed
    /\ inbound' = r.rest
    /\ buflength' \in {0, Len(r.rest)}
    /\ last' = Last("readPacket", 0, r.err, Mc(0, FALSE), r.data, r.hdrs, r.ioerr, nil, 0,
                     r.hdr, r.hexp)
    /\ UNCHANGED <<canceled, maxAllowedPacket, burst, wpc, query>>
    /\ UNCHANGED <<wvars, rvars, bvars, nvars>>

writePacket(L, plan) ==
    /\ canWrite
    /\ burst < MaxBurst
    /\ planAllowed(plan, closed, wpc)
    /\ burst' = burst + 1
    /\ wrote("writePacket", L,
             writePacketRun(Reserve(Payload(L)), Mc(sequence, closed), plan,
                            seenCanceled(plan, canceled), maxAllowedPacket),
             plan, query)

\* the answer to the server's auth-switch request, during the handshake
writeAuthSwitchPacket(L, plan) ==
    /\ canWrite
    /\ ~query
    /\ burst < MaxBurst
    /\ planAllowed(plan, closed, wpc)
    /\ burst' = burst + 1
    /\ wrote("writeAuthSwitchPacket", L,
             writeAuthSwitchPacketRun(Payload(L), Mc(sequence, closed), buflength, plan,
                                      seenCanceled(plan, canceled), maxAllowedPacket),
             plan, query)

writeCommandPacket(command, plan) ==
    /\ canWrite
    /\ planAllowed(plan, closed, wpc)
    /\ burst' = 0
    /\ wrote("writeCommandPacket", command,
             writeCommandPacketRun(command, Mc(sequence, closed), plan,
                                   seenCanceled(plan, canceled), maxAllowedPacket),
             plan, FALSE)

writeCommandPacketStr(L, plan) ==
    /\ canWrite
    /\ planAllowed(plan, closed, wpc)
    /\ burst' = 0
    /\ wrote("writeCommandPacketStr", L,
             writeCommandPacketStrRun(comQuery, Payload(L), Mc(sequence, closed), buflength,
                                      plan, seenCanceled(plan, canceled), maxAllowedPacket),
             plan, TRUE)

writeCommandPacketUint32(plan) ==
    /\ canWrite
    /\ planAllowed(plan, closed, wpc)
    /\ burst' = 0
    /\ wrote("writeCommandPacketUint32", comStmtClose,
             writeCommandPacketUint32Run(comStmtClose, 1, Mc(sequence, closed), plan,
                                         seenCanceled(plan, canceled), maxAllowedPacket),
             plan, FALSE)

writeCommandLongData(L, plan) ==
    /\ canWrite
    /\ planAllowed(plan, closed, wpc)
    /\ burst' = 0
    /\ wrote("writeCommandLongData", L,
             writeCommandLongDataRun(0, Payload(L), Mc(sequence, closed), plan,
                                     seenCanceled(plan, canceled), maxAllowedPacket),
             plan, FALSE)

\* argument lists of the model, each with the statement's parameter count
ExecCalls == {<< <<>>, 0 >>, << <<>>, 1 >>, << <<argNull>>, 1 >>,
              << <<argNull, argInt(42)>>, 2 >>, << <<argBytes(3)>>, 1 >>,
              << <<argBytes(64)>>, 1 >>, << <<argBytes(64), argOther>>, 2 >>,
              << <<argNilBytes, argBytes(3), argNull>>, 3 >>,
              << <<argInt(42), argNull, argNull, argNull, argNull, argNull, argNull,
                   argNull, argNilBytes>>, 9 >>}

writeExecutePacket(call, plan) ==
    LET r == writeExecutePacketRun(call[1], call[2], Mc(sequence, closed), buflength,
                                   plan, seenCanceled(plan, canceled), maxAllowedPacket)
    IN
    /\ canWrite
    /\ planAllowed(plan, closed, wpc)
    /\ burst' = IF r.err = errArgCount THEN burst ELSE 0
    /\ wrote("writeExecutePacket", call, r, plan,
             r.err = errArgCount /\ query)

\* the server sends one logical packet
serverSend(L, fault, at) ==
    /\ idle
    /\ inbound = <<>>
    /\ burst < MaxRecv
    /\ burst' = burst + 1
    /\ inbound' = serverFrame(Payload(L), sequence, 1, fault, at)
    /\ UNCHANGED <<sequence, closed, canceled, maxAllowedPacket, buflength, wpc, query,
                   last>>
    /\ UNCHANGED <<wvars, rvars, bvars, nvars>>

\* writePacket followed by readPacket of the bytes that reached the wire, on
\* a pair of healthy connections that start at the current sequence number
loopback(L) ==
    LET w == writePacketRun(Reserve(Payload(L)), Mc(sequence, FALSE), PlanOk, nil,
                            maxAllowedPacket)
        r == readPacketRun(Wire(w.m.writes), sequence, 0, nil)
    IN
    /\ canWrite
    /\ last' = IF r.st = "done"
               THEN Last("loopback", L, w.err, w.m, r.data, r.hdrs, r.ioerr, r.err, r.seq,
                         r.hdr, r.hexp)
               ELSE Last("loopback", L, w.err, w.m, <<>>, 0, FALSE, "blocked", sequence,
                         <<>>, 0)
    /\ UNCHANGED <<sequence, closed, canceled, maxAllowedPacket, inbound, buflength, burst,
                   wpc, query>>
    /\ UNCHANGED <<wvars, rvars, bvars, nvars>>

\* the handler's result goes to the caller, who may issue the next operation
returned ==
    /\ ~idle
    /\ last' = NoOp
    /\ UNCHANGED <<sequence, closed, canceled, maxAllowedPacket, inbound, buflength, burst,
                   wpc, query>>
    /\ UNCHANGED <<wvars, rvars, bvars, nvars>>

(* The watcher goroutine of startWatcher, while it watches the context of *)
(* the operation in flight                                               *)

\* case <-ctx.ctx.Done(): mc.cleanup()
watcherDone ==
    /\ idle
    /\ wpc = "select"
    /\ closed' = TRUE
    /\ wpc' = "setslot"
    /\ UNCHANGED <<sequence, canceled, maxAllowedPacket, inbound, buflength, burst, query,
                   last>>
    /\ UNCHANGED <<wvars, rvars, bvars, nvars>>

\* the cancellation cause is written into the canceled slot, and the watcher
\* goes back to waiting for the next handle
watcherSetCanceled ==
    /\ idle
    /\ wpc = "setslot"
    /\ canceled' = ctxCanceled
    /\ wpc' = "recv"
    /\ UNCHANGED <<sequence, closed, maxAllowedPacket, inbound, buflength, burst, query,
                   last>>
    /\ UNCHANGED <<wvars, rvars, bvars, nvars>>

Next ==
    \/ \E failAt \in 0..MaxFailAt : readPacket(failAt)
    \/ \E L \in Lens, plan \in Plans : writePacket(L, plan)
    \/ \E L \in {0, 1}, plan \in Plans : writeAuthSwitchPacket(L, plan)
    \/ \E c \in {comQuit, comPing}, plan \in Plans : writeCommandPacket(c, plan)
    \/ \E L \in {0, 3, maxPacketSize}, plan \in Plans : writeCommandPacketStr(L, plan)
    \/ \E plan \in Plans : writeCommandPacketUint32(plan)
    \/ \E L \in {0, 1, 64}, plan \in Plans : writeCommandLongData(L, plan)
    \/ \E call \in ExecCalls, plan \in Plans : writeExecutePacket(call, plan)
    \/ \E L \in ServerLens, fault \in Faults, at \in 1..2 : serverSend(L, fault, at)
    \/ \E L \in Lens : loopback(L)
    \/ returned
    \/ watcherDone
    \/ watcherSetCanceled

Spec == Init /\ [][Next]_vars

----------------------------------------------------------------------------
(* Context-bearing operations and the watcher goroutine *)

\* the context-bearing operations by the place of their mc.finish(): deferred
\* (QueryContext, ExecContext, and those of a statement), deferred after a test
\* of the closed latch (Ping), called before a last look at the context
\* (BeginTx, PrepareContext)
OpKinds == {"QueryContext", "Ping", "BeginTx"}
\* those that look at the context once more after mc.finish()
CheckedKinds == {"BeginTx", "PrepareContext"}

\* the caller hands in a context: context.Background(), one that can still be
\* cancelled, or one that is done already; the server answers the command or
\* stays silent.  Ping on a closed connection returns before watchCancel.
beginOp(c, s, k) ==
    /\ fpc = "idle"
    /\ opn < MaxOps
    /\ opn' = opn + 1
    /\ silent' = s
    /\ IF k = "Ping" /\ closed
       THEN /\ ops' = [ops EXCEPT ![opn + 1].ctx = c, ![opn + 1].kind = k,
                                  ![opn + 1].res = ErrBadConn]
            /\ fpc' = "idle"
       ELSE /\ ops' = [ops EXCEPT ![opn + 1].ctx = c, ![opn + 1].kind = k]
            /\ fpc' = "watchCancel"
    /\ UNCHANGED <<closed, canceled, wpc, chCtx, watching>>
    /\ UNCHANGED <<pvars, rvars, bvars, nvars>>

\* the caller, or a deadline, cancels the context of an operation, during the
\* operation or after it
cancel(n) ==
    /\ ops[n].ctx = "live"
    /\ ops' = [ops EXCEPT ![n].ctx = "done"]
    /\ UNCHANGED <<closed, canceled, wpc, fpc, opn, silent, chCtx, watching>>
    /\ UNCHANGED <<pvars, rvars, bvars, nvars>>

\* watchCancel: nothing to watch for the background context; the error of a
\* context that is done already; otherwise the handle is sent to the watcher,
\* which blocks while the channel is full
watchCancel ==
    /\ fpc = "watchCancel"
    /\ \/ /\ ops[opn].ctx = "background"
          /\ fpc' = "run"
          /\ UNCHANGED <<ops, chCtx>>
       \/ /\ ops[opn].ctx = "done"
          /\ ops' = [ops EXCEPT ![opn].res = ctxCanceled]
          /\ fpc' = "idle"
          /\ UNCHANGED chCtx
       \/ /\ ops[opn].ctx = "live"
          /\ Len(chCtx) < chCtxCap
          /\ chCtx' = Append(chCtx, opn)
          /\ ops' = [ops EXCEPT ![opn].reg = TRUE]
          /\ fpc' = "run"
    /\ UNCHANGED <<closed, canceled, wpc, opn, silent, watching>>
    /\ UNCHANGED <<pvars, rvars, bvars, nvars>>

\* mc.Query: a closed connection is refused without I/O, otherwise the
\* command is written and the operation waits for the reply
run ==
    /\ fpc = "run"
    /\ IF isBroken
       THEN /\ ops' = [ops EXCEPT ![opn].res = ErrBadConn]
            /\ fpc' = "finish"
       ELSE /\ fpc' = "read"
            /\ UNCHANGED ops
    /\ UNCHANGED <<closed, canceled, wpc, opn, silent, chCtx, watching>>
    /\ UNCHANGED <<pvars, rvars, bvars, nvars>>

\* the reply of the server arrives and readPacket returns it
serverReplies ==
    /\ fpc = "read"
    /\ ~silent
    /\ ~closed
    /\ ops' = [ops EXCEPT ![opn].res = nil]
    /\ fpc' = "finish"
    /\ UNCHANGED <<closed, canceled, wpc, opn, silent, chCtx, watching>>
    /\ UNCHANGED <<pvars, rvars, bvars, nvars>>

\* readPacket when the socket was torn down under it: readNext fails,
\* the canceled slot is consulted, and either its error is returned or the
\* connection is closed and ErrInvalidConn returned
readTornDown ==
    /\ fpc = "read"
    /\ closed
    /\ LET r == readPacketRun(<<>>, sequence, 1, canceled)
       IN  /\ ops' = [ops EXCEPT ![opn].res = r.err]
           /\ closed' = IF r.close THEN Close(closed) ELSE closed
    /\ fpc' = "finish"
    /\ UNCHANGED <<canceled, wpc, opn, silent, chCtx, watching>>
    /\ UNCHANGED <<pvars, rvars, bvars, nvars>>

\* the deferred mc.finish(): the finished signal of the handle, if one was
\* sent, and the operation returns
finishSkipped ==
    /\ fpc = "finish"
    /\ ops' = ops
    /\ fpc' = IF ops[opn].kind \in CheckedKinds /\ ops[opn].res = nil THEN "ctxCheck" ELSE "idle"
    /\ UNCHANGED <<closed, canceled, wpc, opn, silent, chCtx, watching>>
    /\ UNCHANGED <<pvars, rvars, bvars, nvars>>
finish ==
    /\ fpc = "finish"
    /\ ops' = [ops EXCEPT ![opn].fin = ops[opn].reg]
    /\ fpc' = IF ops[opn].kind \in CheckedKinds /\ ops[opn].res = nil THEN "ctxCheck" ELSE "idle"
    /\ UNCHANGED <<closed, canceled, wpc, opn, silent, chCtx, watching>>
    /\ UNCHANGED <<pvars, rvars, bvars, nvars>>

\* the last look at the context left out: what was obtained is returned
afterFinishNoCheck ==
    /\ fpc = "ctxCheck"
    /\ ops' = ops
    /\ fpc' = "idle"
    /\ UNCHANGED <<closed, canceled, wpc, opn, silent, chCtx, watching>>
    /\ UNCHANGED <<pvars, rvars, bvars, nvars>>

\* BeginTx, PrepareContext after mc.finish(): a context that is done by now
\* makes them give up what they obtained (tx.Rollback(), stmt.Close(): undone)
\* and return its error
afterFinish ==
    /\ fpc = "ctxCheck"
    /\ ops' = [ops EXCEPT ![opn].res = IF ops[opn].ctx = "done" THEN ctxCanceled ELSE @,
                          ![opn].undone = ops[opn].ctx = "done"]
    /\ fpc' = "idle"
    /\ UNCHANGED <<closed, canceled, wpc, opn, silent, chCtx, watching>>
    /\ UNCHANGED <<pvars, rvars, bvars, nvars>>

\* the caller, or the pool, closes the connection between two operations
closeConn ==
    /\ fpc = "idle"
    /\ ~closed
    /\ closed' = cleanup(Mc(sequence, closed)).closed
    /\ UNCHANGED <<canceled, wpc>>
    /\ UNCHANGED <<wvars, rvars, bvars, nvars>>
    /\ UNCHANGED <<pvars, rvars, bvars, nvars>>

\* startWatcher, for ctx := range chCtx: the watcher receives the next handle
watchReceive ==
    /\ wpc = "recv"
    /\ chCtx # <<>>
    /\ watching' = Head(chCtx)
    /\ chCtx' = Tail(chCtx)
    /\ wpc' = "select"
    /\ UNCHANGED <<closed, canceled, fpc, opn, silent, ops>>
    /\ UNCHANGED <<pvars, rvars, bvars, nvars>>

\* startWatcher, case <-ctx.ctx.Done(): mc.cleanup()
watchDone ==
    /\ wpc = "select"
    /\ ops[watching].ctx = "done"
    /\ closed' = cleanup(Mc(sequence, closed)).closed
    /\ wpc' = "setslot"
    /\ UNCHANGED canceled
    /\ UNCHANGED <<wvars, rvars, bvars, nvars>>
    /\ UNCHANGED <<pvars, rvars, bvars, nvars>>

\* the error of the context is stored in the canceled slot, and the watcher
\* is back at the head of its loop
watchSetCanceled ==
    /\ wpc = "setslot"
    /\ canceled' = ctxCanceled
    /\ wpc' = "recv"
    /\ UNCHANGED closed
    /\ UNCHANGED <<wvars, rvars, bvars, nvars>>
    /\ UNCHANGED <<pvars, rvars, bvars, nvars>>

\* startWatcher, case <-ctx.finished: nothing is done
watchFinished ==
    /\ wpc = "select"
    /\ ops[watching].fin
    /\ wpc' = "recv"
    /\ UNCHANGED <<closed, canceled>>
    /\ UNCHANGED <<wvars, rvars, bvars, nvars>>
    /\ UNCHANGED <<pvars, rvars, bvars, nvars>>

\* startWatcher, case <-mc.closed: return
watchClosed ==
    /\ wpc = "select"
    /\ closed
    /\ wpc' = "exited"
    /\ UNCHANGED <<closed, canceled>>
    /\ UNCHANGED <<wvars, rvars, bvars, nvars>>
    /\ UNCHANGED <<pvars, rvars, bvars, nvars>>

WatchInit ==
    /\ sequence = 0
    /\ query = FALSE
    /\ closed = FALSE
    /\ canceled = nil
    /\ maxAllowedPacket = 2 * maxPacketSize + 1
    /\ inbound = <<>>
    /\ buflength = 0
    /\ burst = 0
    /\ wpc = "recv"
    /\ last = NoOp
    /\ fpc = "idle"
    /\ opn = 0
    /\ silent = FALSE
    /\ ops = noOps
    /\ chCtx = <<>>
    /\ watching = 0
    /\ status = 0
    /\ rows = noRows
    /\ rejectReadOnly = FALSE
    /\ rlast = NoDid
    /\ bufcap = defaultBufSize
    /\ blast = NoTook
    /\ hs = NoHandshake
    /\ dec = NoRow
    /\ lp = NoLoops

\* the steps of the goroutines, which the scheduler runs when they can run
foreground == watchCancel \/ run \/ readTornDown \/ finish \/ afterFinish
watcher == watchReceive \/ watchDone \/ watchSetCanceled \/ watchFinished \/ watchClosed

WatchNext ==
    \/ \E c \in {"background", "live", "done"}, s \in BOOLEAN, k \in OpKinds :
         beginOp(c, s, k)
    \/ \E n \in 1..MaxOps : cancel(n)
    \/ watchCancel
    \/ run
    \/ serverReplies
    \/ readTornDown
    \/ finish
    \/ afterFinish
    \/ closeConn
    \/ watchReceive
    \/ watchDone
    \/ watchSetCanceled
    \/ watchFinished
    \/ watchClosed

WatchSpec ==
    /\ WatchInit
    /\ [][WatchNext]_vars
    /\ WF_vars(foreground)
    /\ WF_vars(watcher)

----------------------------------------------------------------------------
(* Results: OK, ERR and EOF packets, result sets *)

iOK == 0
iEOF == 254
iLocalInFile == 251
iERR == 255
statusMoreResultsExists == 8
ioEOF == "io.EOF"
ErrMalformPkt == "ErrMalformPkt"
MySQLError == "MySQLError"

\* the connection as the result handlers see it: the inbound stream, the
\* counter, the status flags, the closed latch, and the readPacket calls made
\* and for the record the payload read last and whether a read failed
Rc(in, seq, st, cl) ==
    [in |-> in, seq |-> seq, status |-> st, closed |-> cl, reads |-> 0,
     lastp |-> <<>>, ioerr |-> FALSE, seq0 |-> seq]

\* the element of a set of one element: the(B : r \in {e}) is B with r = e
the(S) == CHOOSE x \in S : TRUE

\* readPacket as a step of a handler; call number failAt of the handler finds
\* the socket failing
readPacketOf(c, failAt, cerr) ==
    the({ IF r.st = "blocked" THEN [st |-> "blocked"]
          ELSE [st |-> "done", err |-> r.err, data |-> r.data, ioerr |-> r.ioerr,
                c |-> [c EXCEPT !.in = r.rest, !.seq = r.seq, !.reads = @ + 1,
                                !.closed = IF r.close THEN Close(c.closed) ELSE c.closed,
                                !.lastp = r.data, !.ioerr = r.ioerr]]
          : r \in {readPacketRun(c.in, c.seq, IF c.reads + 1 = failAt THEN 1 ELSE 0,
                                 cerr)} })

\* readStatus
readStatus(b) == b[1] + b[2] * 256

\* readLengthEncodedInteger: the number of bytes the integer takes
lengthEncodedIntegerSize(b) ==
    IF b = <<>> THEN 0
    ELSE CASE b[1] = 251 -> 1
           [] b[1] = 252 -> 3
           [] b[1] = 253 -> 4
           [] b[1] = 254 -> 9
           [] OTHER -> 1

\* readLengthEncodedInteger: the number, whether it is NULL, the bytes it takes;
\* the strings of the model are shorter than 2^31 bytes
readLengthEncodedInteger(b) ==
    IF b = <<>> THEN [num |-> 0, isNull |-> TRUE, n |-> 1]
    ELSE CASE b[1] = 251 -> [num |-> 0, isNull |-> TRUE, n |-> 1]
           [] b[1] = 252 -> [num |-> b[2] + b[3] * 256, isNull |-> FALSE, n |-> 3]
           [] b[1] = 253 -> [num |-> b[2] + b[3] * 256 + b[4] * 65536,
                             isNull |-> FALSE, n |-> 4]
           [] b[1] = 254 -> [num |-> b[2] + b[3] * 256 + b[4] * 65536 + b[5] * (2 ^ 24),
                             isNull |-> FALSE, n |-> 9]
           [] OTHER -> [num |-> b[1], isNull |-> FALSE, n |-> 1]

\* the MySQLError of an ERR packet: number, SQL state after '#', message
serverErrorNoState(data) ==
    [Number |-> data[2] + data[3] * 256, SQLState |-> <<>>, Message |-> Drop(data, 3)]
serverError(data) ==
    LET marked == data[4] = 35 IN
    [Number |-> data[2] + data[3] * 256,
     SQLState |-> IF marked THEN SubSeq(data, 5, 9) ELSE <<>>,
     Message |-> Drop(data, IF marked THEN 9 ELSE 3)]

\* handleErrorPacket
handleErrorPacketCloses(data, c, rejectRO) ==
    IF serverError(data).Number \in {1792, 1290} /\ rejectRO
    THEN [err |-> ErrBadConn, c |-> [c EXCEPT !.closed = Close(c.closed)], me |-> noError]
    ELSE [err |-> MySQLError, c |-> [c EXCEPT !.closed = Close(c.closed)],
          me |-> serverError(data)]
handleErrorPacketKeepsOpen(data, c, rejectRO) ==
    [err |-> MySQLError, c |-> c, me |-> serverError(data)]
handleErrorPacket(data, c, rejectRO) ==
    IF data[1] # iERR THEN [err |-> ErrMalformPkt, c |-> c, me |-> noError]
    ELSE IF serverError(data).Number \in {1792, 1290} /\ rejectRO
    THEN [err |-> ErrBadConn, c |-> [c EXCEPT !.closed = Close(c.closed)], me |-> noError]
    ELSE [err |-> MySQLError, c |-> c, me |-> serverError(data)]

\* handleOkPacket: the status flags follow the affected rows and the insert id
handleOkPacket(data, c) ==
    LET n == lengthEncodedIntegerSize(Drop(data, 1))
        m == lengthEncodedIntegerSize(Drop(data, 1 + n))
    IN  [err |-> nil, me |-> noError,
         affectedRows |-> readLengthEncodedInteger(Drop(data, 1)).num,
         insertId |-> readLengthEncodedInteger(Drop(data, 1 + n)).num,
         c |-> [c EXCEPT !.status = readStatus(SubSeq(data, 2 + n + m, 3 + n + m))]]

\* the result of the LOCAL INFILE handler, which is outside the model
inFileResult == "result of handleInFileRequest"

\* handleInFileRequest: the file name goes to the handler
handleInFileRequest(name, c) ==
    [err |-> inFileResult, me |-> noError, c |-> c, infile |-> name]

\* the result of a handler that read a packet and failed
failed(r) == [st |-> "done", err |-> r.err, me |-> noError, c |-> r.c]

\* the result of a handler that did nothing, or had nothing more to do
passed(c) == [st |-> "done", err |-> nil, me |-> noError, c |-> c]

\* readResultOK
readResultOK(c, failAt, cerr, rejectRO) ==
    the({ IF r.st = "blocked" THEN r
          ELSE IF r.err # nil THEN failed(r)
          ELSE IF r.data[1] = iOK THEN [st |-> "done"] @@ handleOkPacket(r.data, r.c)
          ELSE [st |-> "done"] @@ handleErrorPacket(r.data, r.c, rejectRO)
          : r \in {readPacketOf(c, failAt, cerr)} })

\* readResultSetHeaderPacket: resLen is the column count
readResultSetHeaderPacket(c, failAt, cerr, rejectRO) ==
    the({ IF r.st = "blocked" THEN r
          ELSE IF r.err # nil THEN failed(r) @@ [resLen |-> 0]
          ELSE IF r.data[1] = iOK
          THEN [st |-> "done", resLen |-> 0] @@ handleOkPacket(r.data, r.c)
          ELSE IF r.data[1] = iERR
          THEN [st |-> "done", resLen |-> 0] @@ handleErrorPacket(r.data, r.c, rejectRO)
          ELSE IF r.data[1] = iLocalInFile
          THEN [st |-> "done", resLen |-> 0] @@ handleInFileRequest(Drop(r.data, 1), r.c)
          ELSE passed(r.c) @@ [resLen |-> readLengthEncodedInteger(r.data).num]
          : r \in {readPacketOf(c, failAt, cerr)} })

\* readUntilEOF
RECURSIVE readUntilEOF(_, _, _, _)
readUntilEOF(c, failAt, cerr, rejectRO) ==
    the({ IF r.st = "blocked" THEN r
          ELSE IF r.err # nil THEN failed(r)
          ELSE IF r.data[1] = iERR
          THEN [st |-> "done"] @@ handleErrorPacket(r.data, r.c, rejectRO)
          ELSE IF r.data[1] = iEOF
          THEN passed(IF Len(r.data) = 5
                      THEN [r.c EXCEPT !.status = readStatus(Drop(r.data, 3))]
                      ELSE r.c)
          ELSE readUntilEOF(r.c, failAt, cerr, rejectRO)
          : r \in {readPacketOf(c, failAt, cerr)} })

\* the columns and the rows of a result set are read and dropped
skipResultSet(c, failAt, cerr, rejectRO) ==
    the({ IF cols.st = "blocked" \/ cols.err # nil THEN cols
          ELSE readUntilEOF(cols.c, failAt, cerr, rejectRO)
          : cols \in {readUntilEOF(c, failAt, cerr, rejectRO)} })

\* discardResults
RECURSIVE discardResults(_, _, _, _)
discardResults(c, failAt, cerr, rejectRO) ==
    IF (c.status \div statusMoreResultsExists) % 2 = 0 THEN passed(c)
    ELSE the({ IF h.st = "blocked" THEN h
               ELSE IF h.err # nil THEN [st |-> "done", err |-> h.err, me |-> h.me, c |-> h.c]
               ELSE IF h.resLen > 0
               THEN the({ IF s.st = "blocked" \/ s.err # nil THEN s
                          ELSE discardResults(s.c, failAt, cerr, rejectRO)
                          : s \in {skipResultSet(h.c, failAt, cerr, rejectRO)} })
               ELSE discardResults(h.c, failAt, cerr, rejectRO)
               : h \in {readResultSetHeaderPacket(c, failAt, cerr, rejectRO)} })

\* rows.HasNextResultSet
HasNextResultSet(rs, c) == rs.mc /\ (c.status \div statusMoreResultsExists) % 2 = 1

errColumnCount == "column count mismatch"
\* a slice or an index beyond the end of a slice: the runtime panics
panicOutOfRange == "panic: index out of range"

\* readColumns: columns := make([]mysqlField, count), then definition i goes to
\* columns[i] until the EOF packet
RECURSIVE readColumns(_, _, _, _, _)
readColumns(c, count, i, failAt, cerr) ==
    the({ IF r.st = "blocked" THEN r
          ELSE IF r.err # nil THEN failed(r)
          ELSE IF r.data[1] = iEOF /\ (Len(r.data) = 5 \/ Len(r.data) = 1)
          THEN [st |-> "done", err |-> IF i = count THEN nil ELSE errColumnCount,
                me |-> noError, c |-> r.c]
          ELSE IF i >= count
          THEN [st |-> "done", err |-> panicOutOfRange, me |-> noError, c |-> r.c]
          ELSE readColumns(r.c, count, i + 1, failAt, cerr)
          : r \in {readPacketOf(c, failAt, cerr)} })

\* mysqlRows.Close.  rs: the rows object, mc: rows.mc != nil, done: rows.rs.done;
\* fin: rows.mc.finish() was called
rowsCloseRun(c, rs, failAt, cerr, rejectRO) ==
    IF ~rs.mc THEN passed(c) @@ [rs |-> rs, fin |-> FALSE]
    ELSE IF c.closed
    THEN [st |-> "done", err |-> ErrInvalidConn, me |-> noError, c |-> c, rs |-> rs,
          fin |-> FALSE]
    ELSE the({
      IF r1.st = "blocked" THEN r1
      ELSE IF r1.err # nil THEN r1 @@ [rs |-> [rs EXCEPT !.mc = FALSE], fin |-> TRUE]
      ELSE the({ IF r2.st = "blocked" THEN r2
                 ELSE IF r2.err # nil THEN r2 @@ [rs |-> rs, fin |-> FALSE]
                 ELSE r2 @@ [rs |-> [rs EXCEPT !.mc = FALSE], fin |-> TRUE]
                 : r2 \in {discardResults(r1.c, failAt, cerr, rejectRO)} })
      : r1 \in {IF ~rs.done THEN readUntilEOF(c, failAt, cerr, rejectRO) ELSE passed(c)} })

\* mysqlRows.nextResultSet
nextResultSet(c, rs, failAt, cerr, rejectRO) ==
    IF ~rs.mc
    THEN [st |-> "done", err |-> ioEOF, me |-> noError, c |-> c, rs |-> rs, resLen |-> 0]
    ELSE IF c.closed
    THEN [st |-> "done", err |-> ErrInvalidConn, me |-> noError, c |-> c, rs |-> rs,
          resLen |-> 0]
    ELSE the({
      IF r1.st = "blocked" THEN r1
      ELSE IF r1.err # nil THEN r1 @@ [rs |-> rs, resLen |-> 0]
      ELSE IF ~HasNextResultSet(rs, r1.c)
      THEN [st |-> "done", err |-> ioEOF, me |-> noError, c |-> r1.c,
            rs |-> [rs EXCEPT !.done = TRUE, !.mc = FALSE], resLen |-> 0]
      ELSE readResultSetHeaderPacket(r1.c, failAt, cerr, rejectRO)
           @@ [rs |-> [rs EXCEPT !.done = FALSE]]
      : r1 \in {IF ~rs.done THEN readUntilEOF(c, failAt, cerr, rejectRO) ELSE passed(c)} })

\* nextNotEmptyResultSet without its loop: a result without columns is not
\* passed over
nextResultSetNoSkip(c, rs, failAt, cerr, rejectRO) ==
    nextResultSet(c, rs, failAt, cerr, rejectRO)

\* mysqlRows.nextNotEmptyResultSet
RECURSIVE nextNotEmptyResultSet(_, _, _, _, _)
nextNotEmptyResultSet(c, rs, failAt, cerr, rejectRO) ==
    the({ IF r.st = "blocked" \/ r.err # nil \/ r.resLen > 0 THEN r
          ELSE nextNotEmptyResultSet(r.c, [r.rs EXCEPT !.done = TRUE], failAt, cerr,
                                     rejectRO)
          : r \in {nextResultSet(c, rs, failAt, cerr, rejectRO)} })

\* textRows.NextResultSet
NextResultSetRun(c, rs, failAt, cerr, rejectRO) ==
    the({ IF r.st = "blocked" \/ r.err # nil THEN r
          ELSE readColumns(r.c, r.resLen, 0, failAt, cerr) @@ [rs |-> r.rs]
          : r \in {nextNotEmptyResultSet(c, rs, failAt, cerr, rejectRO)} })

\* Next with the broken test made before the test of the cancellation cause
rowsNextBrokenFirst(c, rs, failAt, cerr, rejectRO) ==
    IF ~rs.mc THEN [st |-> "done", err |-> ioEOF, me |-> noError, c |-> c, rs |-> rs]
    ELSE IF c.closed
    THEN [st |-> "done", err |-> ErrInvalidConn, me |-> noError, c |-> c, rs |-> rs]
    ELSE IF cerr # nil
    THEN [st |-> "done", err |-> cerr, me |-> noError, c |-> c, rs |-> rs]
    ELSE IF rs.done
    THEN [st |-> "done", err |-> ioEOF, me |-> noError, c |-> c, rs |-> rs]
    ELSE the({
      IF r.st = "blocked" THEN r
      ELSE IF r.err # nil THEN failed(r) @@ [rs |-> rs]
      ELSE IF r.data[1] = iEOF /\ Len(r.data) = 5
      THEN LET c1 == [r.c EXCEPT !.status = readStatus(Drop(r.data, 3))]
               rs1 == [rs EXCEPT !.done = TRUE]
           IN  [st |-> "done", err |-> ioEOF, me |-> noError, c |-> c1,
                rs |-> IF HasNextResultSet(rs1, c1) THEN rs1
                       ELSE [rs1 EXCEPT !.mc = FALSE]]
      ELSE IF r.data[1] = iERR
      THEN [st |-> "done", rs |-> [rs EXCEPT !.mc = FALSE]]
           @@ handleErrorPacket(r.data, r.c, rejectRO)
      ELSE passed(r.c) @@ [rs |-> rs]
      : r \in {readPacketOf(c, failAt, cerr)} })

\* textRows.Next and textRows.readRow
rowsNextRun(c, rs, failAt, cerr, rejectRO) ==
    IF ~rs.mc THEN [st |-> "done", err |-> ioEOF, me |-> noError, c |-> c, rs |-> rs]
    ELSE IF cerr # nil
    THEN [st |-> "done", err |-> cerr, me |-> noError, c |-> c, rs |-> rs]
    ELSE IF c.closed
    THEN [st |-> "done", err |-> ErrInvalidConn, me |-> noError, c |-> c, rs |-> rs]
    ELSE IF rs.done
    THEN [st |-> "done", err |-> ioEOF, me |-> noError, c |-> c, rs |-> rs]
    ELSE the({
      IF r.st = "blocked" THEN r
      ELSE IF r.err # nil THEN failed(r) @@ [rs |-> rs]
      ELSE IF r.data[1] = iEOF /\ Len(r.data) = 5
      THEN LET c1 == [r.c EXCEPT !.status = readStatus(Drop(r.data, 3))]
               rs1 == [rs EXCEPT !.done = TRUE]
           IN  [st |-> "done", err |-> ioEOF, me |-> noError, c |-> c1,
                rs |-> IF HasNextResultSet(rs1, c1) THEN rs1
                       ELSE [rs1 EXCEPT !.mc = FALSE]]
      ELSE IF r.data[1] = iERR
      THEN [st |-> "done", rs |-> [rs EXCEPT !.mc = FALSE]]
           @@ handleErrorPacket(r.data, r.c, rejectRO)
      ELSE passed(r.c) @@ [rs |-> rs]
      : r \in {readPacketOf(c, failAt, cerr)} })

----------------------------------------------------------------------------
(* The server's responses *)

okPacket(st) == <<iOK, 0, 0, st % 256, st \div 256, 0, 0>>
eofPacket(st) == <<iEOF, 0, 0, st % 256, st \div 256>>
errPacket(no) == <<iERR, no % 256, no \div 256, 35, 52, 50, 48, 48, 48, 120>>
columnCount == <<1>>
columnDef == <<3, 100, 101, 102>>
rowPacket == <<1, 97>>

\* ER_PARSE_ERROR and the two errors of a read-only server
ErrNos == {1064, 1290, 1792}

\* SERVER_STATUS_AUTOCOMMIT, with and without SERVER_MORE_RESULTS_EXISTS
statusLast == 2
statusMore == 2 + statusMoreResultsExists

rowPackets(n) == [i \in 1..n |-> rowPacket]

\* a result set of n rows, ended by an EOF packet with status st or by an
\* error of the server in the middle of the rows
resultSet(n, st) ==
    <<columnCount, columnDef, eofPacket(st)>> \o rowPackets(n) \o <<eofPacket(st)>>
resultSetErr(n, no, st) ==
    <<columnCount, columnDef, eofPacket(st)>> \o rowPackets(n) \o <<errPacket(no)>>

MaxRows == 1
MaxResults == 2

\* the packets a server sends for one statement: k results, all but the last
\* with SERVER_MORE_RESULTS_EXISTS set; an error ends the response
LastResults ==
    {<<okPacket(statusLast)>>} \cup {<<errPacket(no)>> : no \in ErrNos}
    \cup {resultSet(n, statusLast) : n \in 0..MaxRows}
    \cup {resultSetErr(MaxRows, 1064, statusLast)}
MoreResults == {<<okPacket(statusMore)>>} \cup {resultSet(n, statusMore) : n \in 0..MaxRows}

RECURSIVE Responses(_)
Responses(k) ==
    IF k = 1 THEN LastResults
    ELSE Responses(k - 1) \cup {a \o b : a \in MoreResults, b \in Responses(k - 1)}

\* the packets of a response on the wire, the first with sequence number seq
RECURSIVE frames(_, _)
frames(pkts, seq) ==
    IF pkts = <<>> THEN <<>>
    ELSE serverFrame(Head(pkts), seq, 1, "none", 0) \o frames(Tail(pkts), seqInc(seq))

----------------------------------------------------------------------------
(* Commands and result sets on one connection *)

\* the socket failed under an operation: a read failed, or its last write
\* failed or was short
ioFailed(d) ==
    \/ d.ioerr
    \/ /\ d.writes # <<>>
       /\ LET w == d.writes[Len(d.writes)] IN w.err \/ w.n < Len(w.req)

\* the record of a command or rows operation that returned: the state it
\* started from, its error, what it wrote, the packets it read, the payload
\* read last, the error of the operation before it, and the bytes that were
\* waiting on the socket when it started; fin: it called mc.finish()
Did(op, r, writes) ==
    [op |-> op, err |-> r.err, me |-> r.me, closed0 |-> closed, canceled0 |-> canceled,
     status0 |-> status, rs0 |-> rows, writes |-> writes,
     reads |-> r.c.reads, lastp |-> r.c.lastp, ioerr |-> r.c.ioerr,
     rseq0 |-> r.c.seq0, prev |-> rlast.err, previo |-> ioFailed(rlast),
     in0 |-> inbound, fin |-> "fin" \in DOMAIN r /\ r.fin]

\* the effect of an operation on the connection and on the rows object
did(op, r, rs, writes) ==
    /\ r.st = "done"
    /\ sequence' = r.c.seq
    /\ closed' = r.c.closed
    /\ status' = r.c.status
    /\ inbound' = r.c.in
    /\ rows' = rs
    /\ rlast' = Did(op, r, writes)
    /\ UNCHANGED <<canceled, maxAllowedPacket, buflength, burst, wpc, query, last,
                   rejectReadOnly>>
    /\ UNCHANGED <<wvars, bvars, nvars>>

\* the socket's answers to the write of a command
CommandPlans == {PlanOk} \cup {p \in Plans : p.kind \in {"err", "short"} /\ p.at = 1}

refused == [st |-> "done", err |-> ErrBadConn, me |-> noError,
            c |-> Rc(inbound, sequence, status, closed)]

\* Ping: the command is written and the server's reply read
Ping(plan, reply, failAt) ==
    /\ ~rows.mc
    /\ IF closed THEN plan = PlanOk /\ failAt = 0 /\ did("Ping", refused, rows, <<>>)
       ELSE \E w \in {writeCommandPacketRun(comPing, Mc(sequence, closed), plan, canceled,
                                            maxAllowedPacket)} :
              IF w.err # nil
              THEN /\ failAt = 0
                   /\ did("Ping", [st |-> "done", err |-> w.err, me |-> noError,
                                   c |-> Rc(inbound, w.m.seq, status, w.m.closed)],
                          rows, w.m.writes)
              ELSE \E r \in {readResultOK(Rc(frames(<<reply>>, w.m.seq), w.m.seq, status,
                                             w.m.closed),
                                          failAt, canceled, rejectReadOnly)} :
                     did("Ping", r, rows, w.m.writes)

\* mysqlConn.Query after the query was written: the header of the first
\* result and its columns are read, and the rows object is returned
QueryRun(c, failAt, cerr, rejectRO) ==
    the({
      IF h.st = "blocked" THEN h
      ELSE IF h.err # nil THEN h @@ [rs |-> noRows]
      ELSE IF h.resLen = 0
      THEN the({ IF n.st = "blocked" THEN n
                 ELSE IF n.err \in {nil, ioEOF} THEN [n EXCEPT !.err = nil]
                 ELSE [n EXCEPT !.rs = noRows]
                 : n \in {NextResultSetRun(h.c, [mc |-> TRUE, done |-> TRUE, open |-> TRUE],
                                           failAt, cerr, rejectRO)} })
      ELSE the({ IF cols.st = "blocked" THEN cols
                 ELSE IF cols.err # nil THEN cols @@ [rs |-> noRows]
                 ELSE cols @@ [rs |-> [mc |-> TRUE, done |-> FALSE, open |-> TRUE]]
                 : cols \in {readColumns(h.c, h.resLen, 0, failAt, cerr)} })
      : h \in {readResultSetHeaderPacket(c, failAt, cerr, rejectRO)} })

Query(resp, failAt) ==
    /\ ~rows.mc
    /\ IF closed THEN failAt = 0 /\ did("Query", refused, rows, <<>>)
       ELSE \E w \in {writeCommandPacketStrRun(comQuery, <<83>>, Mc(sequence, closed), 0,
                                               PlanOk, canceled, maxAllowedPacket)} :
            \E r \in {QueryRun(Rc(frames(resp, w.m.seq), w.m.seq, status, w.m.closed),
                               failAt, canceled, rejectReadOnly)} :
              r.st = "done" /\ did("Query", r, r.rs, w.m.writes)

rowsNext(failAt) ==
    /\ rows.open
    /\ \E r \in {rowsNextRun(Rc(inbound, sequence, status, closed), rows, failAt, canceled,
                             rejectReadOnly)} :
         r.st = "done" /\ did("Next", r, r.rs, <<>>)

rowsClose(failAt) ==
    /\ rows.open
    /\ \E r \in {rowsCloseRun(Rc(inbound, sequence, status, closed), rows, failAt, canceled,
                              rejectReadOnly)} :
         r.st = "done" /\ did("Close", r, r.rs, <<>>)

NextResultSet(failAt) ==
    /\ rows.open
    /\ \E r \in {NextResultSetRun(Rc(inbound, sequence, status, closed), rows, failAt,
                                  canceled, rejectReadOnly)} :
         r.st = "done" /\ did("NextResultSet", r, r.rs, <<>>)

\* the watcher tears the connection down and writes the canceled slot
tornDown ==
    /\ ~closed
    /\ closed' = cleanup(Mc(sequence, closed)).closed
    /\ canceled' \in {nil, ctxCanceled}
    /\ rlast' = [NoDid EXCEPT !.prev = rlast.err, !.previo = ioFailed(rlast)]
    /\ UNCHANGED <<sequence, maxAllowedPacket, inbound, buflength, burst, wpc, query, last,
                   status, rows, rejectReadOnly>>
    /\ UNCHANGED <<wvars, bvars, nvars>>

ResultInit ==
    /\ sequence = 0
    /\ query = FALSE
    /\ closed = FALSE
    /\ canceled = nil
    /\ maxAllowedPacket = 2 * maxPacketSize + 1
    /\ inbound = <<>>
    /\ buflength = 0
    /\ burst = 0
    /\ wpc = "select"
    /\ last = NoOp
    /\ fpc = "idle"
    /\ opn = 0
    /\ silent = FALSE
    /\ ops = noOps
    /\ chCtx = <<>>
    /\ watching = 0
    /\ status = statusLast
    /\ rows = noRows
    /\ rejectReadOnly \in BOOLEAN
    /\ rlast = NoDid
    /\ bufcap = defaultBufSize
    /\ blast = NoTook
    /\ hs = NoHandshake
    /\ dec = NoRow
    /\ lp = NoLoops

MaxReadFail == 3

ResultNext ==
    \/ \E plan \in CommandPlans, reply \in {okPacket(statusLast), errPacket(1064),
                                           errPacket(1290)}, failAt \in 0..1 :
          Ping(plan, reply, failAt)
    \/ \E resp \in Responses(MaxResults), failAt \in 0..MaxReadFail : Query(resp, failAt)
    \/ \E failAt \in 0..MaxReadFail : rowsNext(failAt)
    \/ \E failAt \in 0..MaxReadFail : rowsClose(failAt)
    \/ \E failAt \in 0..MaxReadFail : NextResultSet(failAt)
    \/ tornDown

ResultSpec == ResultInit /\ [][ResultNext]_vars

----------------------------------------------------------------------------
(* The framing buffer *)

\* the buffer: cap(b.buf) and b.length
Buf(c, length) == [cap |-> c, length |-> length]

\* buffer.takeBuffer: a slice of the buffer, a bigger buffer that is kept, or
\* one that is too large to keep; cap: the capacity of the slice returned
takeBufferRun(b, length) ==
    IF b.length > 0 THEN [err |-> ErrBusyBuffer, b |-> b, cap |-> 0]
    ELSE IF length <= b.cap THEN [err |-> nil, b |-> b, cap |-> b.cap]
    ELSE IF length < maxPacketSize
    THEN [err |-> nil, b |-> [b EXCEPT !.cap = length], cap |-> length]
    ELSE [err |-> nil, b |-> b, cap |-> length]

\* buffer.takeSmallBuffer
takeSmallBufferRun(b, length) ==
    IF b.length > 0 THEN [err |-> ErrBusyBuffer, b |-> b, cap |-> 0]
    ELSE [err |-> nil, b |-> b, cap |-> b.cap]

\* buffer.takeCompleteBuffer
takeCompleteBufferRun(b) ==
    IF b.length > 0 THEN [err |-> ErrBusyBuffer, b |-> b, cap |-> 0]
    ELSE [err |-> nil, b |-> b, cap |-> b.cap]

\* buffer.store: c is cap(buf)
storeWhenBusy(b, c) ==
    IF c <= maxPacketSize /\ c > b.cap
    THEN [err |-> nil, b |-> [b EXCEPT !.cap = c], cap |-> 0]
    ELSE [err |-> nil, b |-> b, cap |-> 0]
storeRun(b, c) ==
    IF b.length > 0 THEN [err |-> ErrBusyBuffer, b |-> b, cap |-> 0]
    ELSE IF c <= maxPacketSize /\ c > b.cap
    THEN [err |-> nil, b |-> [b EXCEPT !.cap = c], cap |-> 0]
    ELSE [err |-> nil, b |-> b, cap |-> 0]

\* the record of a buffer operation, or of a command that took the buffer
Took(op, n, err, writes) ==
    [op |-> op, n |-> n, err |-> err, cap0 |-> bufcap, length0 |-> buflength,
     closed0 |-> closed, writes |-> writes]

\* an operation of the buffer
bufDid(op, n, r) ==
    /\ bufcap' = r.b.cap
    /\ blast' = Took(op, n, r.err, <<>>)
    /\ UNCHANGED <<sequence, closed, canceled, maxAllowedPacket, inbound, buflength, burst,
                   wpc, query, last>>
    /\ UNCHANGED <<wvars, rvars, nvars>>

\* capacities and lengths around the three sizes of the buffer
BufSizes == {0, defaultBufSize, defaultBufSize + 1, maxCachedBufSize, maxCachedBufSize + 1,
             maxPacketSize - 1, maxPacketSize, maxPacketSize + 1}

bufTakeBuffer(n) ==
    /\ n \in BufSizes
    /\ bufDid("takeBuffer", n, takeBufferRun(Buf(bufcap, buflength), n))

bufTakeSmallBuffer(n) ==
    /\ n \in 1..defaultBufSize
    /\ bufDid("takeSmallBuffer", n, takeSmallBufferRun(Buf(bufcap, buflength), n))

bufTakeCompleteBuffer ==
    /\ buflength \in 0..MaxFill
    /\ bufDid("takeCompleteBuffer", 0, takeCompleteBufferRun(Buf(bufcap, buflength)))

bufStore(c) ==
    /\ c \in BufSizes
    /\ bufDid("store", c, storeRun(Buf(bufcap, buflength), c))

\* bytes of the server are read into the buffer and not consumed yet
bufFill(n) ==
    /\ buflength = 0
    /\ buflength' = n
    /\ blast' = Took("fill", n, nil, <<>>)
    /\ UNCHANGED <<sequence, closed, canceled, maxAllowedPacket, inbound, burst, wpc, query,
                   last, bufcap>>
    /\ UNCHANGED <<wvars, rvars, nvars>>

\* the buffered bytes are consumed
bufConsume ==
    /\ buflength > 0
    /\ buflength' = 0
    /\ blast' = Took("consume", 0, nil, <<>>)
    /\ UNCHANGED <<sequence, closed, canceled, maxAllowedPacket, inbound, burst, wpc, query,
                   last, bufcap>>
    /\ UNCHANGED <<wvars, rvars, nvars>>

\* writeCommandPacketStr: the buffer is taken for the packet, which is written
bufCommand(L, plan) ==
    /\ planAllowed(plan, closed, "recv")
    /\ \E r \in {writeCommandPacketStrRun(comQuery, Payload(L), Mc(sequence, closed),
                                          buflength, plan, canceled, maxAllowedPacket)} :
         /\ sequence' = r.m.seq
         /\ closed' = r.m.closed
         /\ bufcap' = takeBufferRun(Buf(bufcap, buflength), L + 5).b.cap
         /\ blast' = Took("writeCommandPacketStr", L, r.err, r.m.writes)
    /\ UNCHANGED <<canceled, maxAllowedPacket, inbound, buflength, burst, wpc, query, last>>
    /\ UNCHANGED <<wvars, rvars, nvars>>

BufferInit ==
    /\ Init
    /\ sequence = 0
    /\ maxAllowedPacket = 2 * maxPacketSize + 1

BufferNext ==
    \/ \E n \in BufSizes : bufTakeBuffer(n)
    \/ \E n \in {1, defaultBufSize} : bufTakeSmallBuffer(n)
    \/ bufTakeCompleteBuffer
    \/ \E c \in BufSizes : bufStore(c)
    \/ \E n \in 1..MaxFill : bufFill(n)
    \/ bufConsume
    \/ \E L \in {0, defaultBufSize, maxPacketSize}, plan \in CommandPlans : bufCommand(L, plan)

BufferSpec == BufferInit /\ [][BufferNext]_vars

----------------------------------------------------------------------------
(* The connection phase: greeting, TLS upgrade, handshake response *)

\* capability flags, 1 << n
clientLongFlag == 2 ^ 2
clientProtocol41 == 2 ^ 9
clientSSL == 2 ^ 11
\* the flags writeHandshakeResponsePacket always sets: clientProtocol41,
\* clientSecureConn, clientLongPassword, clientTransactions, clientLocalFiles,
\* clientPluginAuth, clientMultiResults, clientConnectAttrs
clientFlagsAlways == 2 ^ 9 + 2 ^ 15 + 2 ^ 0 + 2 ^ 13 + 2 ^ 7 + 2 ^ 19 + 2 ^ 17 + 2 ^ 20
minProtocolVersion == 10

ErrOldProtocol == "ErrOldProtocol"
ErrNoTLS == "ErrNoTLS"
errProtocolVersion == "unsupported protocol version"
errTLSHandshake == "tls: handshake failure"

\* flags & bit != 0
hasFlag(flags, bit) == (flags \div bit) % 2 = 1

\* bytes.IndexByte(s, b) for a b that occurs in s
RECURSIVE IndexByte(_, _)
IndexByte(s, b) == IF s[1] = b THEN 0 ELSE 1 + IndexByte(Tail(s), b)

\* the greeting of a server: protocol version, server version "5", connection
\* id, 8 bytes of the cipher, filler, the lower 2 bytes of the capability flags
greeting(version, flags) ==
    <<version, 53, 0>> \o <<7, 0, 0, 0>> \o <<1, 2, 3, 4, 5, 6, 7, 8>> \o <<0>>
    \o <<flags % 256, flags \div 256>>

\* readHandshakePacket.  tls: mc.cfg.TLS != nil; fallback:
\* mc.cfg.AllowFallbackToPlaintext
readHandshakePacketFallsBack(c, failAt, cerr, tls, fallback, rejectRO) ==
    the({ IF r.st = "blocked" THEN r
          ELSE IF r.err # nil
          THEN [st |-> "done", c |-> r.c, tls |-> tls, flags |-> 0,
                err |-> IF r.err = ErrInvalidConn THEN ErrBadConn ELSE r.err]
          ELSE IF r.data[1] = iERR
          THEN the({ [st |-> "done", c |-> e.c, tls |-> tls, flags |-> 0, err |-> e.err]
                     : e \in {handleErrorPacket(r.data, r.c, rejectRO)} })
          ELSE IF r.data[1] < minProtocolVersion
          THEN [st |-> "done", c |-> r.c, tls |-> tls, flags |-> 0,
                err |-> errProtocolVersion]
          ELSE the({ IF ~hasFlag(flags, clientProtocol41)
                     THEN [st |-> "done", c |-> r.c, tls |-> tls, flags |-> flags,
                           err |-> ErrOldProtocol]
                     ELSE [st |-> "done", c |-> r.c, flags |-> flags, err |-> nil,
                           tls |-> tls /\ hasFlag(flags, clientSSL)]
                     : flags \in {the({ r.data[pos + 10] + r.data[pos + 11] * 256
                                        : pos \in {1 + IndexByte(Tail(r.data), 0) + 1 + 4} })} })
          : r \in {readPacketOf(c, failAt, cerr)} })
readHandshakePacketRun(c, failAt, cerr, tls, fallback, rejectRO) ==
    the({ IF r.st = "blocked" THEN r
          ELSE IF r.err # nil
          THEN [st |-> "done", c |-> r.c, tls |-> tls, flags |-> 0,
                err |-> IF r.err = ErrInvalidConn THEN ErrBadConn ELSE r.err]
          ELSE IF r.data[1] = iERR
          THEN the({ [st |-> "done", c |-> e.c, tls |-> tls, flags |-> 0, err |-> e.err]
                     : e \in {handleErrorPacket(r.data, r.c, rejectRO)} })
          ELSE IF r.data[1] < minProtocolVersion
          THEN [st |-> "done", c |-> r.c, tls |-> tls, flags |-> 0,
                err |-> errProtocolVersion]
          ELSE the({ IF ~hasFlag(flags, clientProtocol41)
                     THEN [st |-> "done", c |-> r.c, tls |-> tls, flags |-> flags,
                           err |-> ErrOldProtocol]
                     ELSE IF ~hasFlag(flags, clientSSL) /\ tls
                     THEN IF fallback
                          THEN [st |-> "done", c |-> r.c, tls |-> FALSE, flags |-> flags,
                                err |-> nil]
                          ELSE [st |-> "done", c |-> r.c, tls |-> tls, flags |-> flags,
                                err |-> ErrNoTLS]
                     ELSE [st |-> "done", c |-> r.c, tls |-> tls, flags |-> flags,
                           err |-> nil]
                     : flags \in {the({ r.data[pos + 10] + r.data[pos + 11] * 256
                                        : pos \in {1 + IndexByte(Tail(r.data), 0) + 1 + 4} })} })
          : r \in {readPacketOf(c, failAt, cerr)} })

\* the 4 bytes of the client flags, little endian
uint32Bytes(v) ==
    <<v % 256, (v \div 256) % 256, (v \div 65536) % 256, (v \div 16777216) % 256>>

\* clientFlags of writeHandshakeResponsePacket (no ClientFoundRows, no
\* MultiStatements, no database, a short authResp)
clientFlagsOf(flags, tls) ==
    clientFlagsAlways + (IF hasFlag(flags, clientLongFlag) THEN clientLongFlag ELSE 0)
    + (IF tls THEN clientSSL ELSE 0)

\* data[:(4+4+1+23)+4]: the reserved header, the client flags, MaxPacketSize,
\* the collation and the filler
sslRequest(clientFlags) ==
    Reserve(uint32Bytes(clientFlags) \o <<0, 0, 0, 0>> \o <<45>> \o [i \in 1..23 |-> 0])

\* data[:pos] at the end: user, authResp with its length, plugin, attributes
handshakeResponse(clientFlags, user, authResp) ==
    sslRequest(clientFlags) \o user \o <<0>> \o <<Len(authResp)>> \o authResp \o <<0>>
    \o <<0>>

\* writeHandshakeResponsePacket up to the TLS handshake, or to its end without
\* TLS
writeHandshakeResponseStart(m, blen, flags, tls, user, authResp, plan, cerr, mAP) ==
    IF takeBuffer(blen) # nil THEN [err |-> errBadConnNoWrite, m |-> m, upgrade |-> FALSE]
    ELSE IF tls
    THEN the({ [err |-> r.err, m |-> r.m, upgrade |-> r.err = nil]
               : r \in {writePacketRun(sslRequest(clientFlagsOf(flags, tls)), m, plan,
                                       cerr, mAP)} })
    ELSE the({ [err |-> r.err, m |-> r.m, upgrade |-> FALSE]
               : r \in {writePacketRun(handshakeResponse(clientFlagsOf(flags, tls), user,
                                                         authResp), m, plan, cerr, mAP)} })

\* writeHandshakeResponsePacket after tlsConn.Handshake() returned nil
writeHandshakeResponseEndReset(m, flags, user, authResp, plan, cerr, mAP) ==
    writePacketRun(handshakeResponse(clientFlagsOf(flags, TRUE), user, authResp), reset(m),
                   plan, cerr, mAP)
writeHandshakeResponseEnd(m, flags, user, authResp, plan, cerr, mAP) ==
    writePacketRun(handshakeResponse(clientFlagsOf(flags, TRUE), user, authResp), m, plan,
                   cerr, mAP)

\* a TLS record as the raw socket carries it: type, version, length, body
tlsRecord(type, body) == <<type, 3, 3, 0, Len(body)>> \o body

\* the packets written by a handler, with the stream that carried them
sentOver(writes, wrapped) ==
    [i \in 1..Len(writes) |-> [req |-> writes[i].req, n |-> writes[i].n,
                               tls |-> wrapped]]

hsUnchanged ==
    /\ UNCHANGED <<canceled, maxAllowedPacket, buflength, burst, wpc, query, last, dec, lp>>
    /\ UNCHANGED <<wvars, rvars, bvars>>

\* the server sends its greeting, or refuses the client with an ERR packet;
\* the reader loop is in its Read
serverGreeting(pkt, s) ==
    /\ hs.pc = "dial"
    /\ hs.loop = "raw"
    /\ inbound' = frames(<<pkt>>, s)
    /\ hs' = [hs EXCEPT !.pc = "greeting", !.greeted = pkt, !.loop = "idle"]
    /\ UNCHANGED <<sequence, closed>>
    /\ hsUnchanged

\* readLoop: the next mc.netConn.Read, on the connection mc.netConn names now
readLoopRead ==
    /\ hs.pc # "idle"
    /\ hs.loop = "idle"
    /\ hs' = [hs EXCEPT !.loop = IF hs.wrapped THEN "tls" ELSE "raw"]
    /\ UNCHANGED <<sequence, closed, inbound>>
    /\ hsUnchanged

readHandshakePacket(failAt) ==
    /\ hs.pc = "greeting"
    /\ \E r \in {readHandshakePacketRun(Rc(inbound, sequence, status, closed), failAt,
                                        canceled, hs.tls, hs.fallback, rejectReadOnly)} :
         /\ r.st = "done"
         /\ inbound' = r.c.in
         /\ sequence' = r.c.seq
         /\ closed' = r.c.closed
         /\ hs' = [hs EXCEPT !.pc = IF r.err = nil THEN "respond" ELSE "failed",
                             !.err = r.err, !.tls = r.tls, !.flags = r.flags,
                             !.got = r.c.lastp]
    /\ hsUnchanged

\* writeHandshakeResponsePacket, until it returns or calls tlsConn.Handshake()
writeHandshakeResponsePacket(plan) ==
    /\ hs.pc = "respond"
    /\ planAllowed(plan, closed, "recv")
    /\ \E r \in {writeHandshakeResponseStart(Mc(sequence, closed), buflength, hs.flags,
                                             hs.tls, hs.user, <<>>, plan, canceled,
                                             maxAllowedPacket)} :
         /\ sequence' = r.m.seq
         /\ closed' = r.m.closed
         /\ hs' = [hs EXCEPT !.pc = IF r.err # nil THEN "failed"
                                    ELSE IF r.upgrade THEN "tlsHandshake" ELSE "auth",
                             !.err = r.err,
                             !.sent = @ \o sentOver(r.m.writes, FALSE)]
    /\ UNCHANGED inbound
    /\ hsUnchanged

\* tlsConn.Handshake() reads the server's handshake records from the raw
\* socket in the foreground; a Read of the reader loop that is pending on the
\* same socket may be served with them instead
tlsServerHello(taker) ==
    /\ hs.pc = "tlsHandshake"
    /\ taker = "readLoop" => hs.loop = "raw"
    /\ IF taker = "handshake"
       THEN /\ hs' = [hs EXCEPT !.pc = "tlsDone", !.direct = TRUE]
            /\ UNCHANGED inbound
       ELSE /\ hs' = [hs EXCEPT !.pc = "tlsStalled", !.stolen = TRUE, !.loop = "idle"]
            /\ inbound' = inbound \o tlsRecord(22, <<2>>)
    /\ UNCHANGED <<sequence, closed>>
    /\ hsUnchanged

\* tlsConn.Handshake() returns: with an error, or nil, and then the rest of
\* writeHandshakeResponsePacket runs over the TLS connection
tlsHandshakeReturns(ok, plan) ==
    /\ hs.pc \in {"tlsDone", "tlsStalled"}
    /\ ok => hs.pc = "tlsDone"
    /\ planAllowed(plan, closed, "recv")
    /\ IF ok
       THEN \E r \in {writeHandshakeResponseEnd(Mc(sequence, closed), hs.flags, hs.user,
                                                <<>>, plan, canceled, maxAllowedPacket)} :
              /\ sequence' = r.m.seq
              /\ closed' = r.m.closed
              /\ hs' = [hs EXCEPT !.pc = IF r.err # nil THEN "failed" ELSE "auth",
                                  !.err = r.err, !.wrapped = TRUE,
                                  !.sent = @ \o sentOver(r.m.writes, TRUE)]
       ELSE /\ plan = PlanOk
            /\ hs' = [hs EXCEPT !.pc = "failed", !.err = errTLSHandshake]
            /\ UNCHANGED <<sequence, closed>>
    /\ UNCHANGED inbound
    /\ hsUnchanged

\* the server answers the handshake response with an OK packet numbered s.  A
\* Read of the reader loop on the TLS connection delivers the packet; a Read
\* that was pending on the raw socket since before the upgrade delivers the
\* TLS record that carries it.
serverReply(s) ==
    /\ hs.pc = "auth"
    /\ hs.replied = <<>>
    /\ hs.loop # "idle"
    /\ inbound' = inbound \o (IF hs.wrapped /\ hs.loop = "raw"
                              THEN tlsRecord(23, frames(<<okPacket(statusLast)>>, s))
                              ELSE frames(<<okPacket(statusLast)>>, s))
    /\ hs' = [hs EXCEPT !.replied = <<s>>, !.loop = "idle",
                        !.stolen = @ \/ (hs.wrapped /\ hs.loop = "raw")]
    /\ UNCHANGED <<sequence, closed>>
    /\ hsUnchanged

\* the reply to the handshake response is read
readAuthResult(failAt) ==
    /\ hs.pc = "auth"
    /\ \E r \in {readPacketOf(Rc(inbound, sequence, status, closed), failAt, canceled)} :
         /\ r.st = "done"
         /\ inbound' = r.c.in
         /\ sequence' = r.c.seq
         /\ closed' = r.c.closed
         /\ hs' = [hs EXCEPT !.pc = IF r.err = nil THEN "ready" ELSE "failed",
                             !.err = r.err]
    /\ hsUnchanged

\* the users of the configurations
Users == {<<>>, <<117>>}

\* the greetings: a server with and without TLS, an old one, a wrong version
Greetings ==
    {greeting(minProtocolVersion, f) : f \in {clientProtocol41 + clientSSL + clientLongFlag,
                                              clientProtocol41 + clientSSL,
                                              clientProtocol41, clientSSL, 0}}
    \cup {greeting(minProtocolVersion - 1, clientProtocol41 + clientSSL), errPacket(1064)}

HandshakeInit ==
    /\ sequence = 0
    /\ query = FALSE
    /\ closed = FALSE
    /\ canceled = nil
    /\ maxAllowedPacket = 2 * maxPacketSize + 1
    /\ inbound = <<>>
    /\ buflength = 0
    /\ burst = 0
    /\ wpc = "recv"
    /\ last = NoOp
    /\ fpc = "idle"
    /\ opn = 0
    /\ silent = FALSE
    /\ ops = noOps
    /\ chCtx = <<>>
    /\ watching = 0
    /\ status = 0
    /\ rows = noRows
    /\ rejectReadOnly = FALSE
    /\ rlast = NoDid
    /\ bufcap = defaultBufSize
    /\ blast = NoTook
    /\ \E t \in BOOLEAN, f \in BOOLEAN, u \in Users :
         hs = [NoHandshake EXCEPT !.pc = "dial", !.tls0 = t, !.tls = t, !.fallback = f,
                                  !.user = u]
    /\ dec = NoRow
    /\ lp = NoLoops

HandshakeNext ==
    \/ \E pkt \in Greetings, s \in {0, 1} : serverGreeting(pkt, s)
    \/ readLoopRead
    \/ \E failAt \in 0..2 : readHandshakePacket(failAt)
    \/ \E plan \in CommandPlans : writeHandshakeResponsePacket(plan)
    \/ \E taker \in {"handshake", "readLoop"} : tlsServerHello(taker)
    \/ \E ok \in BOOLEAN, plan \in CommandPlans : tlsHandshakeReturns(ok, plan)
    \/ \E s \in {2, 3, 4} : serverReply(s)
    \/ \E failAt \in 0..2 : readAuthResult(failAt)

HandshakeSpec == HandshakeInit /\ [][HandshakeNext]_vars

----------------------------------------------------------------------------
(* Rows: the binary and the text decoder *)

flagUnsigned == 2 ^ 5
fieldTypeTiny == 1
fieldTypeShort == 2
fieldTypeLong == 3
fieldTypeInt24 == 9
fieldTypeDate == 10
fieldTypeYear == 13

\* a column of the result set: rows.rs.columns[i]
Column(fieldType, flags) == [fieldType |-> fieldType, flags |-> flags]

\* the Go value nil in dest
destNil == [kind |-> "nil"]

errUnknownFieldType == "unknown field type"
errIllegalLength == "illegal length"

\* readLengthEncodedString
readLengthEncodedString(b) ==
    LET r == readLengthEncodedInteger(b)
    IN  IF r.num < 1
        THEN [buf |-> <<>>, isNull |-> r.isNull, n |-> r.n, err |-> nil]
        ELSE IF Len(b) >= r.n + r.num
        THEN [buf |-> SubSeq(b, r.n + 1, r.n + r.num), isNull |-> FALSE,
              n |-> r.n + r.num, err |-> nil]
        ELSE [buf |-> <<>>, isNull |-> FALSE, n |-> r.n + r.num, err |-> ioEOF]

\* int64(intN(x)) and int64(uintN(x)) of the little-endian bytes b of x, as the
\* eight little-endian bytes of the int64
toInt64(b, signed) ==
    [kind |-> "int64",
     le |-> b \o [j \in 1..(8 - Len(b)) |-> IF signed /\ b[Len(b)] >= 128 THEN 255 ELSE 0]]

\* formatBinaryDateTime: the lengths of a binary date are 0, 4, 7 and 11
formatBinaryDateTime(src, dstlen) ==
    IF Len(src) \in {0, 4, 7, 11}
    THEN [err |-> nil, v |-> [kind |-> "datetime", src |-> src, length |-> dstlen]]
    ELSE [err |-> errIllegalLength, v |-> destNil]

\* the bit of column i in the NULL bitmap of a binary row
nullBitUnshifted(i) == i
nullBit(i) == i + 2

\* binaryRows.readRow, one column: the value, the new position, the error
binaryColumn(data, col, pos) ==
    LET unsigned == hasFlag(col.flags, flagUnsigned)
        fixed(size) ==
            IF pos + size > Len(data)
            THEN [err |-> panicOutOfRange, v |-> destNil, pos |-> pos]
            ELSE [err |-> nil, pos |-> pos + size,
                  v |-> LET b == SubSeq(data, pos + 1, pos + size)
                        IN  IF size = 8 /\ unsigned /\ b[8] >= 128
                            THEN [kind |-> "string", uint64 |-> b]
                            ELSE toInt64(b, ~unsigned)]
    IN  CASE col.fieldType = fieldTypeNULL -> [err |-> nil, v |-> destNil, pos |-> pos]
          [] col.fieldType = fieldTypeTiny -> fixed(1)
          [] col.fieldType \in {fieldTypeShort, fieldTypeYear} -> fixed(2)
          [] col.fieldType \in {fieldTypeInt24, fieldTypeLong} -> fixed(4)
          [] col.fieldType = fieldTypeLongLong -> fixed(8)
          [] col.fieldType = fieldTypeString ->
                LET s == readLengthEncodedString(Drop(data, pos))
                IN  [err |-> s.err, pos |-> pos + s.n,
                     v |-> IF s.err # nil \/ s.isNull THEN destNil
                           ELSE [kind |-> "bytes", buf |-> s.buf]]
          [] col.fieldType = fieldTypeDate ->
                LET r == readLengthEncodedInteger(Drop(data, pos))
                    p == pos + r.n
                IN  IF r.isNull THEN [err |-> nil, v |-> destNil, pos |-> p]
                    ELSE IF p + r.num > Len(data)
                    THEN [err |-> panicOutOfRange, v |-> destNil, pos |-> p]
                    ELSE LET f == formatBinaryDateTime(SubSeq(data, p + 1, p + r.num), 10)
                         IN  [err |-> f.err, v |-> f.v,
                              pos |-> IF f.err = nil THEN p + r.num ELSE p]
          [] OTHER -> [err |-> errUnknownFieldType, v |-> destNil, pos |-> pos]

\* binaryRows.readRow, the loop over dest from column i (from 0)
RECURSIVE binaryColumns(_, _, _, _, _)
binaryColumns(data, columns, i, pos, dest) ==
    IF i >= Len(columns) THEN [err |-> nil, pos |-> pos, dest |-> dest]
    ELSE LET byte == 2 + (nullBit(i) \div 8)
         IN  IF byte > Len(data)
             THEN [err |-> panicOutOfRange, pos |-> pos, dest |-> dest]
             ELSE IF (data[byte] \div Pow2(nullBit(i) % 8)) % 2 = 1
             THEN binaryColumns(data, columns, i + 1, pos, Append(dest, destNil))
             ELSE the({ IF r.err # nil
                        THEN [err |-> r.err, pos |-> r.pos, dest |-> Append(dest, r.v)]
                        ELSE binaryColumns(data, columns, i + 1, r.pos, Append(dest, r.v))
                        : r \in {binaryColumn(data, columns[i + 1], pos)} })

\* binaryRows.readRow after the packet indicator: the NULL bitmap, then the values
binaryDecode(data, columns) ==
    LET pos == 1 + ((Len(columns) + 7 + 2) \div 8)
    IN  IF pos > Len(data) THEN [err |-> panicOutOfRange, pos |-> pos, dest |-> <<>>]
        ELSE binaryColumns(data, columns, 0, pos, <<>>)

\* binaryRows.readRow
binaryReadRowRun(c, rs, columns, failAt, cerr, rejectRO) ==
    the({
      IF r.st = "blocked" THEN r
      ELSE IF r.err # nil THEN failed(r) @@ [rs |-> rs, dest |-> <<>>, pos |-> 0]
      ELSE IF r.data[1] # iOK
      THEN IF r.data[1] = iEOF /\ Len(r.data) = 5
           THEN LET c1 == [r.c EXCEPT !.status = readStatus(Drop(r.data, 3))]
                    rs1 == [rs EXCEPT !.done = TRUE]
                IN  [st |-> "done", err |-> ioEOF, me |-> noError, c |-> c1,
                     dest |-> <<>>, pos |-> 0,
                     rs |-> IF HasNextResultSet(rs1, c1) THEN rs1
                            ELSE [rs1 EXCEPT !.mc = FALSE]]
           ELSE [st |-> "done", rs |-> [rs EXCEPT !.mc = FALSE], dest |-> <<>>, pos |-> 0]
                @@ handleErrorPacket(r.data, r.c, rejectRO)
      ELSE the({ [st |-> "done", err |-> d.err, me |-> noError, c |-> r.c, rs |-> rs,
                  dest |-> d.dest, pos |-> d.pos]
                 : d \in {binaryDecode(r.data, columns)} })
      : r \in {readPacketOf(c, failAt, cerr)} })

\* binaryRows.Next
binaryNextRun(c, rs, columns, failAt, cerr, rejectRO) ==
    IF ~rs.mc
    THEN [st |-> "done", err |-> ioEOF, me |-> noError, c |-> c, rs |-> rs,
          dest |-> <<>>, pos |-> 0]
    ELSE IF cerr # nil
    THEN [st |-> "done", err |-> cerr, me |-> noError, c |-> c, rs |-> rs,
          dest |-> <<>>, pos |-> 0]
    ELSE IF c.closed
    THEN [st |-> "done", err |-> ErrInvalidConn, me |-> noError, c |-> c, rs |-> rs,
          dest |-> <<>>, pos |-> 0]
    ELSE binaryReadRowRun(c, rs, columns, failAt, cerr, rejectRO)

errSyntax == "strconv: invalid syntax"
errRange == "strconv: value out of range"

\* a decimal numeral without its leading zeros
RECURSIVE stripZeros(_)
stripZeros(d) == IF Len(d) > 1 /\ d[1] = 0 THEN stripZeros(Tail(d)) ELSE d

\* a < b for two such numerals
RECURSIVE digitsLess(_, _)
digitsLess(a, b) ==
    IF Len(a) # Len(b) THEN Len(a) < Len(b)
    ELSE IF a = <<>> THEN FALSE
    ELSE IF a[1] # b[1] THEN a[1] < b[1]
    ELSE digitsLess(Tail(a), Tail(b))

\* 1<<bitSize - 1, 1<<(bitSize-1) and 1<<(bitSize-1) - 1 as decimal numerals
uintMax(bitSize) ==
    IF bitSize = 32 THEN <<4, 2, 9, 4, 9, 6, 7, 2, 9, 5>>
    ELSE <<1, 8, 4, 4, 6, 7, 4, 4, 0, 7, 3, 7, 0, 9, 5, 5, 1, 6, 1, 5>>
intCutoff(bitSize) ==
    IF bitSize = 32 THEN <<2, 1, 4, 7, 4, 8, 3, 6, 4, 8>>
    ELSE <<9, 2, 2, 3, 3, 7, 2, 0, 3, 6, 8, 5, 4, 7, 7, 5, 8, 0, 8>>
intMax(bitSize) ==
    IF bitSize = 32 THEN <<2, 1, 4, 7, 4, 8, 3, 6, 4, 7>>
    ELSE <<9, 2, 2, 3, 3, 7, 2, 0, 3, 6, 8, 5, 4, 7, 7, 5, 8, 0, 7>>

\* an integer of Go as its sign and its decimal numeral
Num(kind, neg, mag) == [kind |-> kind, neg |-> neg, mag |-> mag]

\* strconv.ParseUint(s, 10, bitSize)
ParseUint(s, bitSize) ==
    IF s = <<>> \/ \E j \in 1..Len(s) : s[j] \notin 48..57
    THEN [err |-> errSyntax, v |-> Num("uint64", FALSE, <<0>>)]
    ELSE LET d == stripZeros([j \in 1..Len(s) |-> s[j] - 48])
         IN  IF digitsLess(uintMax(bitSize), d)
             THEN [err |-> errRange, v |-> Num("uint64", FALSE, uintMax(bitSize))]
             ELSE [err |-> nil, v |-> Num("uint64", FALSE, d)]

\* strconv.ParseInt(s, 10, bitSize)
ParseInt(s, bitSize) ==
    IF s = <<>> THEN [err |-> errSyntax, v |-> Num("int64", FALSE, <<0>>)]
    ELSE LET neg == s[1] = 45
             u == ParseUint(IF s[1] \in {43, 45} THEN Tail(s) ELSE s, bitSize)
         IN  IF u.err = errSyntax THEN [err |-> errSyntax, v |-> Num("int64", FALSE, <<0>>)]
             ELSE IF ~neg /\ ~digitsLess(u.v.mag, intCutoff(bitSize))
             THEN [err |-> errRange, v |-> Num("int64", FALSE, intMax(bitSize))]
             ELSE IF neg /\ digitsLess(intCutoff(bitSize), u.v.mag)
             THEN [err |-> errRange, v |-> Num("int64", TRUE, intCutoff(bitSize))]
             ELSE [err |-> nil, v |-> Num("int64", neg /\ u.v.mag # <<0>>, u.v.mag)]

\* textRows.readRow, one column that is not NULL; the columns of the model are
\* integers and strings
textColumn(col, buf) ==
    CASE col.fieldType \in {fieldTypeTiny, fieldTypeShort, fieldTypeInt24, fieldTypeYear,
                            fieldTypeLong} -> ParseInt(buf, 32)
      [] col.fieldType = fieldTypeLongLong ->
            IF hasFlag(col.flags, flagUnsigned) THEN ParseUint(buf, 64)
            ELSE ParseInt(buf, 64)
      [] OTHER -> [err |-> nil, v |-> [kind |-> "bytes", buf |-> buf]]

\* textRows.readRow, the loop over dest from column i (from 0)
RECURSIVE textColumns(_, _, _, _, _)
textColumns(data, columns, i, pos, dest) ==
    IF i >= Len(columns) THEN [err |-> nil, pos |-> pos, dest |-> dest]
    ELSE IF pos > Len(data) THEN [err |-> panicOutOfRange, pos |-> pos, dest |-> dest]
    ELSE the({
      IF s.err # nil THEN [err |-> s.err, pos |-> pos + s.n, dest |-> dest]
      ELSE IF s.isNull
      THEN textColumns(data, columns, i + 1, pos + s.n, Append(dest, destNil))
      ELSE the({ IF r.err # nil
                 THEN [err |-> r.err, pos |-> pos + s.n, dest |-> Append(dest, r.v)]
                 ELSE textColumns(data, columns, i + 1, pos + s.n, Append(dest, r.v))
                 : r \in {textColumn(columns[i + 1], s.buf)} })
      : s \in {readLengthEncodedString(Drop(data, pos))} })

\* textRows.readRow
textReadRowRun(c, rs, columns, failAt, cerr, rejectRO) ==
    IF rs.done
    THEN [st |-> "done", err |-> ioEOF, me |-> noError, c |-> c, rs |-> rs,
          dest |-> <<>>, pos |-> 0]
    ELSE the({
      IF r.st = "blocked" THEN r
      ELSE IF r.err # nil THEN failed(r) @@ [rs |-> rs, dest |-> <<>>, pos |-> 0]
      ELSE IF r.data[1] = iEOF /\ Len(r.data) = 5
      THEN LET c1 == [r.c EXCEPT !.status = readStatus(Drop(r.data, 3))]
               rs1 == [rs EXCEPT !.done = TRUE]
           IN  [st |-> "done", err |-> ioEOF, me |-> noError, c |-> c1,
                dest |-> <<>>, pos |-> 0,
                rs |-> IF HasNextResultSet(rs1, c1) THEN rs1
                       ELSE [rs1 EXCEPT !.mc = FALSE]]
      ELSE IF r.data[1] = iERR
      THEN [st |-> "done", rs |-> [rs EXCEPT !.mc = FALSE], dest |-> <<>>, pos |-> 0]
           @@ handleErrorPacket(r.data, r.c, rejectRO)
      ELSE the({ [st |-> "done", err |-> d.err, me |-> noError, c |-> r.c, rs |-> rs,
                  dest |-> d.dest, pos |-> d.pos]
                 : d \in {textColumns(r.data, columns, 0, 0, <<>>)} })
      : r \in {readPacketOf(c, failAt, cerr)} })

----------------------------------------------------------------------------
(* The server's rows *)

\* a value of the server: NULL, or the bytes the binary protocol carries for it
Null == [null |-> TRUE]
Bin(bytes) == [null |-> FALSE, bytes |-> bytes]
\* an integer of the server for a text row
Dec(neg, mag) == [null |-> FALSE, neg |-> neg, mag |-> mag]

\* the NULL bitmap of a binary row: column i (from 0) has bit i + 2
RECURSIVE bitmapByte(_, _, _)
bitmapByte(vals, j, b) ==
    IF b > 7 THEN 0
    ELSE (IF 8 * j + b - 2 \in 0..(Len(vals) - 1) /\ vals[8 * j + b - 1].null
          THEN Pow2(b) ELSE 0) + bitmapByte(vals, j, b + 1)

RECURSIVE valuesOf(_)
valuesOf(vals) ==
    IF vals = <<>> THEN <<>>
    ELSE (IF Head(vals).null THEN <<>> ELSE Head(vals).bytes) \o valuesOf(Tail(vals))

\* a row of the binary protocol: header 0x00, NULL bitmap, the values that are
\* not NULL
binaryRow(vals) ==
    <<0>> \o [j \in 1..((Len(vals) + 7 + 2) \div 8) |-> bitmapByte(vals, j - 1, 0)]
          \o valuesOf(vals)

\* the decimal text of an integer
FormatInt(v) == (IF v.neg THEN <<45>> ELSE <<>>) \o [j \in 1..Len(v.mag) |-> 48 + v.mag[j]]

\* a row of the text protocol: 0xfb for NULL, or the text as a length-encoded
\* string
RECURSIVE textRow(_)
textRow(vals) ==
    IF vals = <<>> THEN <<>>
    ELSE (IF Head(vals).null THEN <<251>>
          ELSE LET t == IF "mag" \in DOMAIN Head(vals) THEN FormatInt(Head(vals))
                        ELSE Head(vals).bytes
               IN  lengthEncodedInteger(Len(t)) \o t)
         \o textRow(Tail(vals))

\* the columns of the model
IntColumns ==
    {Column(t, f) : t \in {fieldTypeTiny, fieldTypeShort, fieldTypeInt24, fieldTypeLong,
                           fieldTypeLongLong},
                    f \in {0, flagUnsigned}}
    \cup {Column(fieldTypeYear, flagUnsigned)}
BinaryColumns ==
    IntColumns \cup {Column(fieldTypeString, 0), Column(fieldTypeDate, 0),
                     Column(fieldTypeNULL, 0)}

\* the values a binary row carries in a column
BinaryValues(col) ==
    {Null} \cup
    CASE col.fieldType = fieldTypeNULL -> {}
      [] col.fieldType = fieldTypeTiny -> {Bin(<<200>>)}
      [] col.fieldType \in {fieldTypeShort, fieldTypeYear} -> {Bin(<<1, 128>>)}
      [] col.fieldType \in {fieldTypeInt24, fieldTypeLong} -> {Bin(<<1, 2, 3, 255>>)}
      [] col.fieldType = fieldTypeLongLong -> {Bin(<<1, 2, 3, 4, 5, 6, 7, 255>>)}
      [] col.fieldType = fieldTypeString -> {Bin(<<0>>), Bin(<<2, 97, 98>>), Bin(<<251>>)}
      [] col.fieldType = fieldTypeDate -> {Bin(<<0>>), Bin(<<4, 234, 7, 11, 6>>)}

\* the least and the greatest value of each integer column, and values between
TextValues(col) ==
    LET u == hasFlag(col.flags, flagUnsigned) IN
    {Null} \cup (IF col \in IntColumns THEN {Dec(FALSE, <<0>>)} ELSE {}) \cup
    CASE col.fieldType = fieldTypeTiny ->
            IF u THEN {Dec(FALSE, <<2, 5, 5>>)}
            ELSE {Dec(TRUE, <<1, 2, 8>>), Dec(FALSE, <<1, 2, 7>>)}
      [] col.fieldType = fieldTypeShort ->
            IF u THEN {Dec(FALSE, <<6, 5, 5, 3, 5>>)}
            ELSE {Dec(TRUE, <<3, 2, 7, 6, 8>>), Dec(FALSE, <<3, 2, 7, 6, 7>>)}
      [] col.fieldType = fieldTypeInt24 ->
            IF u THEN {Dec(FALSE, <<1, 6, 7, 7, 7, 2, 1, 5>>)}
            ELSE {Dec(TRUE, <<8, 3, 8, 8, 6, 0, 8>>), Dec(FALSE, <<8, 3, 8, 8, 6, 0, 7>>)}
      [] col.fieldType = fieldTypeLong ->
            IF u THEN {Dec(FALSE, <<2, 1, 4, 7, 4, 8, 3, 6, 4, 7>>),
                       Dec(FALSE, <<2, 1, 4, 7, 4, 8, 3, 6, 4, 8>>),
                       Dec(FALSE, <<4, 2, 9, 4, 9, 6, 7, 2, 9, 5>>)}
            ELSE {Dec(TRUE, <<2, 1, 4, 7, 4, 8, 3, 6, 4, 8>>),
                  Dec(FALSE, <<2, 1, 4, 7, 4, 8, 3, 6, 4, 7>>)}
      [] col.fieldType = fieldTypeYear -> {Dec(FALSE, <<1, 9, 0, 1>>), Dec(FALSE, <<2, 1, 5, 5>>)}
      [] col.fieldType = fieldTypeLongLong ->
            IF u THEN {Dec(FALSE, <<9, 2, 2, 3, 3, 7, 2, 0, 3, 6, 8, 5, 4, 7, 7, 5, 8, 0, 8>>),
                       Dec(FALSE, <<1, 8, 4, 4, 6, 7, 4, 4, 0, 7, 3, 7, 0, 9, 5, 5, 1, 6, 1, 5>>)}
            ELSE {Dec(TRUE, <<9, 2, 2, 3, 3, 7, 2, 0, 3, 6, 8, 5, 4, 7, 7, 5, 8, 0, 8>>),
                  Dec(FALSE, <<9, 2, 2, 3, 3, 7, 2, 0, 3, 6, 8, 5, 4, 7, 7, 5, 8, 0, 7>>)}
      [] OTHER -> {Bin(<<97, 98>>)}

\* the rows of a result set of these columns
RECURSIVE BinaryRows(_)
BinaryRows(columns) ==
    IF columns = <<>> THEN {<<>>}
    ELSE {<<v>> \o r : v \in BinaryValues(Head(columns)), r \in BinaryRows(Tail(columns))}
RECURSIVE TextRows(_)
TextRows(columns) ==
    IF columns = <<>> THEN {<<>>}
    ELSE {<<v>> \o r : v \in TextValues(Head(columns)), r \in TextRows(Tail(columns))}

MaxColumns == 2
\* seven and fifteen columns: the NULL bitmap takes a second and a third byte
WideColumns ==
    {[i \in 1..7 |-> Column(fieldTypeTiny, 0)],
     [i \in 1..15 |-> IF i = 15 THEN Column(fieldTypeString, 0) ELSE Column(fieldTypeNULL, 0)]}
ColumnLists(Columns) == UNION {[1..k -> Columns] : k \in 1..MaxColumns}

----------------------------------------------------------------------------
(* Rows of one result set on one connection *)

\* the effect of readRow on the connection, the rows object and the record
readRowDid(r) ==
    /\ r.st = "done"
    /\ sequence' = r.c.seq
    /\ closed' = r.c.closed
    /\ status' = r.c.status
    /\ inbound' = r.c.in
    /\ rows' = r.rs
    /\ dec' = [dec EXCEPT !.op = "readRow", !.dest = r.dest, !.pos = r.pos, !.err = r.err,
                           !.ioerr = r.c.ioerr]
    /\ UNCHANGED <<canceled, maxAllowedPacket, buflength, burst, wpc, query, last,
                   rejectReadOnly, rlast, hs, lp>>
    /\ UNCHANGED <<wvars, bvars>>

\* the server sends the next packet of the result set
serverSent(binary, columns, vals, data) ==
    /\ inbound = <<>>
    /\ ~closed
    /\ rows.mc
    /\ ~rows.done
    /\ inbound' = frames(<<data>>, sequence)
    /\ dec' = [NoRow EXCEPT !.op = "sent", !.binary = binary, !.columns = columns,
                            !.vals = vals, !.data = data]
    /\ UNCHANGED <<sequence, closed, canceled, maxAllowedPacket, buflength, burst, wpc,
                   query, last, hs, lp>>
    /\ UNCHANGED <<wvars, rvars, bvars>>

\* the first row of a prepared statement's result set
serverBinaryRow(columns, vals) ==
    /\ dec.op = "none"
    /\ vals \in BinaryRows(columns)
    /\ serverSent(TRUE, columns, vals, binaryRow(vals))

\* the first row of a query's result set
serverTextRow(columns, vals) ==
    /\ dec.op = "none"
    /\ vals \in TextRows(columns)
    /\ serverSent(FALSE, columns, vals, textRow(vals))

\* the end of the rows: an EOF packet, or an error of the server
serverEndsRows(binary, pkt) ==
    /\ dec.op = "none" \/ dec.binary = binary
    /\ pkt \in {eofPacket(statusLast), eofPacket(statusMore), errPacket(1064)}
    /\ serverSent(binary, IF dec.op = "none" THEN <<Column(fieldTypeTiny, 0)>>
                          ELSE dec.columns, <<>>, pkt)

binaryReadRow(failAt) ==
    /\ dec.op = "sent"
    /\ dec.binary
    /\ \E r \in {binaryReadRowRun(Rc(inbound, sequence, status, closed), rows, dec.columns,
                                  failAt, canceled, rejectReadOnly)} : readRowDid(r)

textReadRow(failAt) ==
    /\ dec.op = "sent"
    /\ ~dec.binary
    /\ \E r \in {textReadRowRun(Rc(inbound, sequence, status, closed), rows, dec.columns,
                                failAt, canceled, rejectReadOnly)} : readRowDid(r)

\* textRows.Next
textNextRun(c, rs, columns, failAt, cerr, rejectRO) ==
    IF ~rs.mc
    THEN [st |-> "done", err |-> ioEOF, me |-> noError, c |-> c, rs |-> rs,
          dest |-> <<>>, pos |-> 0]
    ELSE IF cerr # nil
    THEN [st |-> "done", err |-> cerr, me |-> noError, c |-> c, rs |-> rs,
          dest |-> <<>>, pos |-> 0]
    ELSE IF c.closed
    THEN [st |-> "done", err |-> ErrInvalidConn, me |-> noError, c |-> c, rs |-> rs,
          dest |-> <<>>, pos |-> 0]
    ELSE textReadRowRun(c, rs, columns, failAt, cerr, rejectRO)

\* Next once more after the EOF packet of the rows was read.  When that EOF
\* packet had SERVER_MORE_RESULTS_EXISTS, the header hdr of the next result is
\* what the server sent after it.  count: the packets read by this Next
nextAfterEnd(hdr, failAt) ==
    /\ dec.op = "readRow"
    /\ rows.done
    /\ inbound = <<>>
    /\ \E in \in {IF (status \div statusMoreResultsExists) % 2 = 1
                   THEN frames(<<hdr>>, sequence) ELSE <<>>} :
       \E r \in {IF dec.binary
                 THEN binaryNextRun(Rc(in, sequence, status, closed), rows, dec.columns,
                                    failAt, canceled, rejectReadOnly)
                 ELSE textNextRun(Rc(in, sequence, status, closed), rows, dec.columns,
                                  failAt, canceled, rejectReadOnly)} :
          /\ r.st = "done"
          /\ sequence' = r.c.seq
          /\ closed' = r.c.closed
          /\ status' = r.c.status
          /\ inbound' = r.c.in
          /\ rows' = r.rs
          /\ dec' = [dec EXCEPT !.op = "Next", !.data = hdr, !.dest = r.dest, !.pos = r.pos,
                                 !.err = r.err, !.ioerr = r.c.ioerr, !.count = r.c.reads,
                                 !.status0 = status]
    /\ UNCHANGED <<canceled, maxAllowedPacket, buflength, burst, wpc, query, last,
                   rejectReadOnly, rlast, hs, lp>>
    /\ UNCHANGED <<wvars, bvars>>

\* the server sends sent column definitions and the EOF packet; readColumns
\* expects count of them
readColumnsOf(count, sent, failAt) ==
    /\ dec.op = "none"
    /\ inbound = <<>>
    /\ ~closed
    /\ \E r \in {readColumns(Rc(frames([j \in 1..sent |-> columnDef] \o <<eofPacket(status)>>,
                                        sequence), sequence, status, closed),
                              count, 0, failAt, canceled)} :
          /\ r.st = "done"
          /\ sequence' = r.c.seq
          /\ closed' = r.c.closed
          /\ inbound' = r.c.in
          /\ dec' = [NoRow EXCEPT !.op = "readColumns", !.count = count,
                                  !.vals = [j \in 1..sent |-> columnDef],
                                  !.columns = IF r.err = nil THEN [j \in 1..count |-> columnDef]
                                              ELSE <<>>,
                                  !.pos = r.c.reads, !.err = r.err, !.ioerr = r.c.ioerr]
    /\ UNCHANGED <<canceled, maxAllowedPacket, buflength, burst, wpc, query, last,
                   status, rows, rejectReadOnly, rlast, hs, lp>>
    /\ UNCHANGED <<wvars, bvars>>

\* mc.result.affectedRows = append(..., 0), mc.result.insertIds = append(..., 0)
appendResult(result) ==
    [affectedRows |-> Append(result.affectedRows, 0),
     insertIds |-> Append(result.insertIds, 0)]

\* handleOkPacket's update of the entry of the current statement
setResultKeepsZero(result, affectedRows, insertId) == result
setResult(result, affectedRows, insertId) ==
    [affectedRows |-> IF Len(result.affectedRows) > 0
                      THEN [result.affectedRows EXCEPT ![Len(result.affectedRows)] = affectedRows]
                      ELSE result.affectedRows,
     insertIds |-> IF Len(result.insertIds) > 0
                   THEN [result.insertIds EXCEPT ![Len(result.insertIds)] = insertId]
                   ELSE result.insertIds]

\* the first packets of a reply: OK packets without and with affected rows, an
\* insert id and SERVER_MORE_RESULTS_EXISTS, an error, a LOCAL INFILE request,
\* column counts of one and of three bytes
Headers ==
    {okPacket(statusLast), okPacket(statusMore), <<iOK, 3, 7, 2, 0, 0, 0>>,
     <<iOK, 252, 44, 1, 5, 10, 0, 0, 0>>, errPacket(1064), <<iLocalInFile, 102>>,
     <<1>>, <<2>>, <<252, 44, 1>>}

\* the results of the statements of one reply
MaxHeaders == 2

\* the server sends the first packet of a result and the client reads it with
\* readResultSetHeaderPacket
readResultSetHeader(pkt, failAt) ==
    /\ dec.op \in {"none", "readResultSetHeaderPacket"}
    /\ Len(dec.result.affectedRows) < MaxHeaders
    /\ inbound = <<>>
    /\ ~closed
    /\ \E r \in {readResultSetHeaderPacket(Rc(frames(<<pkt>>, sequence), sequence, status,
                                               closed), failAt, canceled, rejectReadOnly)} :
          /\ r.st = "done"
          /\ sequence' = r.c.seq
          /\ closed' = r.c.closed
          /\ inbound' = r.c.in
          /\ status' = r.c.status
          /\ dec' = [NoRow EXCEPT
                        !.op = "readResultSetHeaderPacket", !.data = pkt, !.pos = r.resLen,
                        !.err = r.err, !.ioerr = r.c.ioerr, !.me = r.me,
                        !.vals = IF "infile" \in DOMAIN r THEN r.infile ELSE <<>>,
                        !.status0 = status, !.result0 = dec.result,
                        !.result = IF "insertId" \in DOMAIN r
                                   THEN setResult(appendResult(dec.result), r.affectedRows,
                                                  r.insertId)
                                   ELSE appendResult(dec.result)]
    /\ UNCHANGED <<canceled, maxAllowedPacket, buflength, burst, wpc, query, last,
                   rows, rejectReadOnly, rlast, hs, lp>>
    /\ UNCHANGED <<wvars, bvars>>

\* the column definitions of a result set were read: its rows follow
RowInit ==
    /\ sequence = 4
    /\ query = FALSE
    /\ closed = FALSE
    /\ canceled = nil
    /\ maxAllowedPacket = 2 * maxPacketSize + 1
    /\ inbound = <<>>
    /\ buflength = 0
    /\ burst = 0
    /\ wpc = "select"
    /\ last = NoOp
    /\ fpc = "idle"
    /\ opn = 0
    /\ silent = FALSE
    /\ ops = noOps
    /\ chCtx = <<>>
    /\ watching = 0
    /\ status = statusLast
    /\ rows = [mc |-> TRUE, done |-> FALSE, open |-> TRUE]
    /\ rejectReadOnly = FALSE
    /\ rlast = NoDid
    /\ bufcap = defaultBufSize
    /\ blast = NoTook
    /\ hs = NoHandshake
    /\ dec = NoRow
    /\ lp = NoLoops

RowNext ==
    \/ \E columns \in ColumnLists(BinaryColumns) \cup WideColumns :
          \E vals \in BinaryRows(columns) : serverBinaryRow(columns, vals)
    \/ \E columns \in ColumnLists(IntColumns \cup {Column(fieldTypeString, 0)}) :
          \E vals \in TextRows(columns) : serverTextRow(columns, vals)
    \/ \E binary \in BOOLEAN, pkt \in {eofPacket(statusLast), eofPacket(statusMore),
                                      errPacket(1064)} :
          serverEndsRows(binary, pkt)
    \/ \E failAt \in 0..1 : binaryReadRow(failAt)
    \/ \E failAt \in 0..1 : textReadRow(failAt)
    \/ \E hdr \in {okPacket(statusLast), columnCount}, failAt \in 0..1 :
          nextAfterEnd(hdr, failAt)
    \/ \E count \in 0..MaxColumns, sent \in 0..(MaxColumns + 1), failAt \in 0..(MaxColumns + 2) :
          readColumnsOf(count, sent, failAt)
    \/ \E pkt \in Headers, failAt \in 0..1 : readResultSetHeader(pkt, failAt)

RowSpec == RowInit /\ [][RowNext]_vars

----------------------------------------------------------------------------
(* PrepareContext and the watcher goroutine *)

\* the server answers the command with an ERR packet: mc.Prepare returns
\* the server's error
serverRejects ==
    /\ fpc = "read"
    /\ ~silent
    /\ ~closed
    /\ ops' = [ops EXCEPT ![opn].res = MySQLError]
    /\ fpc' = "finish"
    /\ UNCHANGED <<closed, canceled, wpc, opn, silent, chCtx, watching>>
    /\ UNCHANGED <<pvars, rvars, bvars, nvars>>

PrepareNext ==
    \/ \E c \in {"background", "live", "done"}, s \in BOOLEAN : beginOp(c, s, "PrepareContext")
    \/ \E n \in 1..MaxOps : cancel(n)
    \/ watchCancel
    \/ run
    \/ serverReplies
    \/ serverRejects
    \/ readTornDown
    \/ finish
    \/ afterFinish
    \/ closeConn
    \/ watchReceive
    \/ watchDone
    \/ watchSetCanceled
    \/ watchFinished
    \/ watchClosed

PrepareSpec ==
    /\ WatchInit
    /\ [][PrepareNext]_vars
    /\ WF_vars(foreground)
    /\ WF_vars(watcher)

----------------------------------------------------------------------------
(* The reader loop, the writer loop and the foreground's channel operations *)

\* the channels mc.readRes, mc.writeReq and mc.writeRes hold one element
chanCap == 1
\* calls of the foreground, and packets of the server, in one behaviour
MaxCalls == 2
MaxSent == 2

\* the physical packet the foreground hands to the writer: COM_PING
pingPacket == <<1, 0, 0, 0, comPing>>

\* the selects of the loops and of the foreground.  Each gives the branches
\* that can be taken: the channel operation while the channel has room, or
\* an element, and case <-mc.closech once closech is closed
readLoopSelectNoClosech(readRes, res, cl) ==
    {[pc |-> "Read", readRes |-> Append(readRes, res)] : x \in {y \in {1} : Len(readRes) < chanCap}}
readLoopSelect(readRes, res, cl) ==
    {[pc |-> "Read", readRes |-> Append(readRes, res)] : x \in {y \in {1} : Len(readRes) < chanCap}}
    \cup {[pc |-> "exited", readRes |-> readRes] : x \in {y \in {1} : cl}}

writeLoopRecv(reqs, cl) ==
    {[pc |-> "writeSync", data |-> Len(Head(reqs)), writeReq |-> Tail(reqs)]
       : x \in {y \in {1} : reqs # <<>>}}
    \cup {[pc |-> "exited", data |-> 0, writeReq |-> reqs] : x \in {y \in {1} : cl}}

writeLoopSend(writeRes, res, cl) ==
    {[pc |-> "recv", writeRes |-> Append(writeRes, res)]
       : x \in {y \in {1} : Len(writeRes) < chanCap}}
    \cup {[pc |-> "exited", writeRes |-> writeRes] : x \in {y \in {1} : cl}}

\* writePacket: select { case mc.writeReq <- data: case <-mc.closech: return ErrInvalidConn }
writePacketSend(reqs, data, cl) ==
    {[pc |-> "recvRes", writeReq |-> Append(reqs, data), err |-> nil, via |-> "chan"]
       : x \in {y \in {1} : Len(reqs) < chanCap}}
    \cup {[pc |-> "idle", writeReq |-> reqs, err |-> ErrInvalidConn, via |-> "closech"]
            : x \in {y \in {1} : cl}}

\* writePacket: select { case result = <-mc.writeRes: case <-mc.closech: return
\* ErrInvalidConn }, and what it makes of a result
writePacketRecv(writeRes, data, cl) ==
    {the({ [pc |-> "idle", writeRes |-> Tail(writeRes), via |-> "chan",
            err |-> IF ~o.err /\ o.n = Len(data) THEN nil
                    ELSE writeFailed(o, Len(data) - 4, data, Mc(0, cl), nil).err,
            closed |-> IF ~o.err /\ o.n = Len(data) THEN cl
                       ELSE writeFailed(o, Len(data) - 4, data, Mc(0, cl), nil).m.closed]
           : o \in {Head(writeRes)} })
       : x \in {y \in {1} : writeRes # <<>>}}
    \cup {[pc |-> "idle", writeRes |-> writeRes, err |-> ErrInvalidConn, via |-> "closech",
            closed |-> cl] : x \in {y \in {1} : cl}}

\* the results of netConn.Write for a packet of n bytes: on a socket that was
\* torn down an error, else all bytes, or an error after none or some
writeSyncResults(n, cl) ==
    IF cl THEN {[n |-> 0, err |-> TRUE]}
    ELSE {[n |-> n, err |-> FALSE], [n |-> 0, err |-> TRUE], [n |-> 2, err |-> TRUE]}

loopUnchanged ==
    /\ UNCHANGED <<pvars, wvars, rvars, bvars, hs, dec>>
    /\ UNCHANGED <<closed, canceled, wpc>>

\* the server sends bytes
loopServerSends ==
    /\ lp.sent < MaxSent
    /\ ~lp.closech
    /\ lp' = [lp EXCEPT !.avail = TRUE, !.sent = @ + 1]
    /\ loopUnchanged

\* mc.cleanup(), called by Close, by the watcher or by a failed operation:
\* closech is closed and the socket torn down
loopCleanup ==
    /\ ~lp.closech
    /\ lp' = [lp EXCEPT !.closech = cleanup(Mc(0, lp.closech)).closed]
    /\ loopUnchanged

\* readLoop: n, err := mc.netConn.Read(data) returns with the bytes that
\* arrived, or with an error (always so once the socket was torn down)
loopRead(fails) ==
    /\ lp.rl = "Read"
    /\ lp.avail \/ lp.closech
    /\ lp' = [lp EXCEPT !.rl = "select", !.avail = FALSE,
                        !.rres = IF fails \/ lp.closech THEN "err" ELSE "data"]
    /\ loopUnchanged

\* readLoop: the select after Read
loopReadSelect ==
    /\ lp.rl = "select"
    /\ \E b \in readLoopSelect(lp.readRes, lp.rres, lp.closech) :
         lp' = [lp EXCEPT !.rl = b.pc, !.readRes = b.readRes]
    /\ loopUnchanged

\* writeLoop: the select on mc.writeReq
loopWriteRecv ==
    /\ lp.wl = "recv"
    /\ \E b \in writeLoopRecv(lp.writeReq, lp.closech) :
         lp' = [lp EXCEPT !.wl = b.pc, !.wdata = b.data, !.writeReq = b.writeReq]
    /\ loopUnchanged

\* writeLoop: mc.writeSync(data) returns
loopWriteSync ==
    /\ lp.wl = "writeSync"
    /\ \E o \in writeSyncResults(lp.wdata, lp.closech) :
         lp' = [lp EXCEPT !.wl = "send", !.wres = o]
    /\ loopUnchanged

\* writeLoop: the select on mc.writeRes
loopWriteSend ==
    /\ lp.wl = "send"
    /\ \E b \in writeLoopSend(lp.writeRes, lp.wres, lp.closech) :
         lp' = [lp EXCEPT !.wl = b.pc, !.writeRes = b.writeRes]
    /\ loopUnchanged

\* the foreground calls writePacket for one physical packet, or reads
loopCall(op) ==
    /\ lp.fg = "idle"
    /\ lp.calls < MaxCalls
    /\ lp' = [lp EXCEPT !.fg = op, !.calls = @ + 1, !.err = "none", !.via = "none"]
    /\ loopUnchanged

\* writePacket: the select on mc.writeReq
loopSendReq ==
    /\ lp.fg = "sendReq"
    /\ \E b \in writePacketSend(lp.writeReq, pingPacket, lp.closech) :
         lp' = [lp EXCEPT !.fg = b.pc, !.writeReq = b.writeReq, !.err = b.err, !.via = b.via]
    /\ loopUnchanged

\* writePacket: the select on mc.writeRes; a failed write may end in cleanup
loopRecvRes ==
    /\ lp.fg = "recvRes"
    /\ \E b \in writePacketRecv(lp.writeRes, pingPacket, lp.closech) :
         lp' = [lp EXCEPT !.fg = b.pc, !.writeRes = b.writeRes, !.err = b.err, !.via = b.via,
                          !.closech = b.closed]
    /\ loopUnchanged

\* readNext: the foreground takes the reader's next result, or gives up on
\* closech; readPacket closes the connection on an error
loopReadNext ==
    /\ lp.fg = "readNext"
    /\ \/ /\ lp.readRes # <<>>
          /\ lp' = [lp EXCEPT !.fg = "idle", !.readRes = Tail(@), !.via = "chan",
                              !.err = IF Head(lp.readRes) = "err" THEN ErrInvalidConn ELSE nil,
                              !.closech = IF Head(lp.readRes) = "err" THEN Close(@) ELSE @]
       \/ /\ lp.closech
          /\ lp' = [lp EXCEPT !.fg = "idle", !.via = "closech", !.err = ErrInvalidConn]
    /\ loopUnchanged

LoopInit ==
    /\ sequence = 0
    /\ query = FALSE
    /\ closed = FALSE
    /\ canceled = nil
    /\ maxAllowedPacket = 2 * maxPacketSize + 1
    /\ inbound = <<>>
    /\ buflength = 0
    /\ burst = 0
    /\ wpc = "recv"
    /\ last = NoOp
    /\ fpc = "idle"
    /\ opn = 0
    /\ silent = FALSE
    /\ ops = noOps
    /\ chCtx = <<>>
    /\ watching = 0
    /\ status = 0
    /\ rows = noRows
    /\ rejectReadOnly = FALSE
    /\ rlast = NoDid
    /\ bufcap = defaultBufSize
    /\ blast = NoTook
    /\ hs = NoHandshake
    /\ dec = NoRow
    /\ lp = NoLoops

\* the steps of the three goroutines
readerLoop == (\E fails \in BOOLEAN : loopRead(fails)) \/ loopReadSelect
writerLoop == loopWriteRecv \/ loopWriteSync \/ loopWriteSend
foregroundWaits == loopSendReq \/ loopRecvRes \/ loopReadNext

LoopNext ==
    \/ loopServerSends
    \/ loopCleanup
    \/ \E fails \in BOOLEAN : loopRead(fails)
    \/ loopReadSelect
    \/ loopWriteRecv
    \/ loopWriteSync
    \/ loopWriteSend
    \/ \E op \in {"sendReq", "readNext"} : loopCall(op)
    \/ loopSendReq
    \/ loopRecvRes
    \/ loopReadNext

LoopSpec ==
    /\ LoopInit
    /\ [][LoopNext]_vars
    /\ WF_vars(readerLoop)
    /\ WF_vars(writerLoop)
    /\ WF_vars(foregroundWaits)

----------------------------------------------------------------------------
(* Properties *)

\* a header was received by the last readPacket and its sequence byte is not
\* the value of the counter
mismatch == last.op = "readPacket" /\ last.hdr # <<>> /\ last.hdr[4] # last.hexp

\* C1: readPacket: whenever the sequence byte of a received header differs
\* from the connection's counter (its value at the start plus one per header
\* accepted before), the connection is closed and an error is returned without
\* payload: ErrPktSyncMul if the received byte is greater, ErrPktSync otherwise.
C1_SyncMismatchCloses ==
    mismatch =>
        /\ last.hexp = (last.seq0 + last.hdrs) % 256
        /\ closed
        /\ last.data = <<>>
        /\ last.err = IF last.hdr[4] > last.hexp THEN ErrPktSyncMul ELSE ErrPktSync

\* the second physical packet of a split packet arrives one ahead
C1_Witness ==
    /\ mismatch
    /\ last.hdrs = 1
    /\ last.hdr[4] > last.hexp
    /\ ~last.closed0
    /\ closed
    /\ last.err = ErrPktSyncMul

\* the first packet of the server's answer to a COM_QUERY carries sequence 2
\* where the client expects 1
desyncReply ==
    /\ last.op = "readPacket"
    /\ query
    /\ burst = 1
    /\ ~last.closed0
    /\ last.seq0 = 1
    /\ last.hdrs = 0
    /\ last.hdr # <<>>
    /\ last.hdr[4] = 2

\* C2 as claimed: the answer to a query with header sequence 2 where 1 is
\* expected makes the client return ErrPktSync, close the socket and mark the
\* connection broken.
C2_Original == desyncReply => (last.err = ErrPktSync /\ closed /\ isBroken)

\* C2 amended: the answer to a query with header sequence 2 where 1 is
\* expected makes the client return ErrPktSyncMul (the received sequence is
\* ahead), close the socket and mark the connection broken.
C2_DesyncReply ==
    desyncReply => (last.err = ErrPktSyncMul /\ last.data = <<>> /\ closed /\ isBroken)

C2_Witness == desyncReply /\ last.err = ErrPktSyncMul /\ closed

\* handlers that write without resetting the counter
rawWriteOps == {"writePacket", "writeAuthSwitchPacket"}

\* the write requests of the last handler that the writer completed: no error
\* and n = 4 + size
completeWrites ==
    {i \in 1..Len(last.writes) :
        ~last.writes[i].err /\ last.writes[i].n = 4 + last.writes[i].size}

\* physical packets the last readPacket read in full, header and payload
packetsReadInFull ==
    IF last.ioerr /\ last.hdr # <<>> THEN last.hdrs - 1 ELSE last.hdrs

\* C3 as claimed: between two resets the counter changes only by +1 modulo
\* 256 for each physical packet successfully read by readPacket or
\* successfully written by writePacket; a failed read or write does not
\* advance it.
C3_Original ==
    /\ last.op = "readPacket" => sequence = (last.seq0 + packetsReadInFull) % 256
    /\ last.op \in rawWriteOps =>
           sequence = (last.seq0 + Cardinality(completeWrites)) % 256

\* C3 amended: between two resets the counter changes only by +1 modulo 256
\* for each physical packet whose header readPacket accepted (the increment
\* comes before the payload is read, so a read that fails in the payload has
\* advanced the counter for that packet) or that the writer reported written
\* without error with exactly its header and chunk (n = 4 + chunk length); a
\* read that fails at the header or on a sequence mismatch and a failed write
\* do not advance it, and a packet with sequence 0 following one with
\* sequence 255 is accepted as in order.
C3_CounterSteps ==
    /\ last.op = "readPacket" =>
           /\ sequence = (last.seq0 + last.hdrs) % 256
           /\ last.err = nil => last.hdrs = (Len(last.data) \div maxPacketSize) + 1
           /\ (last.hdr = <<>> \/ last.hdr[4] # last.hexp) =>
                  last.hexp = sequence
    /\ last.op \in rawWriteOps =>
           sequence = (last.seq0 + Cardinality(completeWrites)) % 256

\* three physical packets numbered 254, 255 and 0 are read as one payload
C3_Witness ==
    /\ last.op = "readPacket"
    /\ last.err = nil
    /\ last.seq0 = 254
    /\ last.hdrs = 3
    /\ last.hdr[4] = 0
    /\ sequence = 1

\* handlers that start a command
commandOps == {"writeCommandPacket", "writeCommandPacketStr", "writeCommandPacketUint32",
               "writeCommandLongData", "writeExecutePacket"}

\* write request i of the last handler is the first of a writePacket call
firstOfCall(i) == i = 1 \/ last.writes[i - 1].call # last.writes[i].call

\* C4: the first physical packet of every command written by
\* writeCommandPacket, writeCommandPacketStr, writeCommandPacketUint32 and
\* writeExecutePacket and of every COM_STMT_SEND_LONG_DATA chunk carries
\* sequence 0 whatever the counter was before, also the COM_STMT_EXECUTE
\* packet that follows long-data packets.
C4_CommandsStartAtZero ==
    last.op \in commandOps =>
        \A i \in 1..Len(last.writes) : firstOfCall(i) => last.writes[i].req[4] = 0

\* with the counter not at 0, an execute sends long-data chunks and then its
\* COM_STMT_EXECUTE packet
C4_Witness ==
    /\ last.op = "writeExecutePacket"
    /\ last.seq0 # 0
    /\ last.err = nil
    /\ \E i, j \in 1..Len(last.writes) :
          /\ i + 1 < j
          /\ last.writes[i].req[5] = comStmtSendLongData
          /\ last.writes[i + 1].req[5] = comStmtSendLongData
          /\ firstOfCall(j)
          /\ last.writes[j].req[5] = comStmtExecute
          /\ last.writes[j].req[4] = 0

\* C5 as claimed: when the client answers an auth-switch request
\* (writeAuthSwitchPacket) the counter is set to 0 before the response packet
\* is sent.
C5_Original ==
    (last.op = "writeAuthSwitchPacket" /\ last.writes # <<>>) =>
        last.writes[1].req[4] = 0

\* C5 amended: writeAuthSwitchPacket does not reset the counter: the response
\* packet carries the value the counter had when the handler was called, and
\* a successful response advances the counter by one.
C5_AuthSwitchContinues ==
    (last.op = "writeAuthSwitchPacket" /\ last.writes # <<>>) =>
        /\ last.writes[1].req[4] = last.seq0
        /\ last.err = nil => sequence = (last.seq0 + 1) % 256

\* the answer to an auth-switch request that was read as packet 0
C5_Witness ==
    /\ last.op = "writeAuthSwitchPacket"
    /\ last.err = nil
    /\ last.seq0 = 1
    /\ last.writes[1].req[4] = 1
    /\ sequence = 2

\* the socket of the last handler was healthy: the connection was open and
\* every write request was written in full without an error
healthy ==
    /\ ~last.closed0
    /\ \A i \in 1..Len(last.writes) :
          ~last.writes[i].err /\ last.writes[i].n = Len(last.writes[i].req)

\* ceil(L / maxPacketSize), plus one when L is a positive multiple of it
packetsFor(L) ==
    ((L + maxPacketSize - 1) \div maxPacketSize)
    + (IF L > 0 /\ L % maxPacketSize = 0 THEN 1 ELSE 0)

\* C6 (for non-empty payloads): writePacket with payload length
\* L <= maxAllowedPacket on a healthy socket hands exactly ceil(L/maxPacketSize)
\* physical packets to the writer, plus an empty trailing one when L is a
\* positive multiple of maxPacketSize; each write is one header plus at most
\* maxPacketSize payload bytes, the headers carry consecutive sequence numbers
\* modulo 256, and writePacket returns success.
C6_WriteFraming ==
    (last.op = "writePacket" /\ last.arg > 0 /\ last.arg <= maxAllowedPacket /\ healthy) =>
        /\ last.err = nil
        /\ Len(last.writes) = packetsFor(last.arg)
        /\ \A i \in 1..Len(last.writes) :
              /\ Len(last.writes[i].req) <= 4 + maxPacketSize
              /\ headerPktLen(last.writes[i].req) = Len(last.writes[i].req) - 4
              /\ last.writes[i].req[4] = (last.seq0 + i - 1) % 256

\* C7: for every payload of length up to maxAllowedPacket, the bytes emitted
\* by writePacket, fed into readPacket on a connection with the same starting
\* sequence, give back exactly that payload and leave both sides with the same
\* counter.
C7_RoundTrip ==
    (last.op = "loopback" /\ last.arg <= maxAllowedPacket) =>
        /\ last.err = nil
        /\ last.rerr = nil
        /\ last.data = Payload(last.arg)
        /\ last.rseq = last.wseq

\* C8: writePacket with a payload longer than maxAllowedPacket returns
\* ErrPktTooLarge without handing anything to the writer; the counter is
\* unchanged and the connection is neither closed nor broken by it.
C8_TooLarge ==
    (last.op = "writePacket" /\ last.arg > maxAllowedPacket) =>
        /\ last.err = ErrPktTooLarge
        /\ last.writes = <<>>
        /\ sequence = last.seq0
        /\ closed = last.closed0
        /\ canceled = last.canceled0

\* an oversized payload on an open connection in the middle of an exchange
C8_Witness ==
    /\ last.op = "writePacket"
    /\ last.arg > maxAllowedPacket
    /\ last.err = ErrPktTooLarge
    /\ last.seq0 # 0
    /\ ~closed
    /\ ~isBroken

\* the last readPacket received and accepted a header of length 0
zeroLength ==
    /\ last.op = "readPacket"
    /\ last.hdr # <<>>
    /\ last.hdr[4] = last.hexp
    /\ headerPktLen(last.hdr) = 0

\* d is a run of consecutive payload bytes of the server, none missing,
\* repeated or out of place (payload bytes are numbered by Payload)
inOrder(d) == \A i \in 1..(Len(d) - 1) : d[i + 1] = (d[i] + 1) % 251

\* C9: readPacket: a physical packet of length 0 received when no full-size
\* fragment has been accumulated is malformed, the connection is closed and an
\* error is returned; after one or more full-size fragments it ends the
\* logical packet and the accumulated fragments are returned in order.
C9_EmptyPacket ==
    zeroLength =>
        IF last.hdrs = 1
        THEN closed /\ last.err = ErrInvalidConn /\ last.data = <<>>
        ELSE /\ last.err = nil
             /\ Len(last.data) = (last.hdrs - 1) * maxPacketSize
             /\ inOrder(last.data)
             /\ closed = last.closed0

\* two full-size fragments and the empty packet that ends them
C9_Witness ==
    /\ zeroLength
    /\ last.hdrs = 3
    /\ last.err = nil
    /\ last.data = Payload(2 * maxPacketSize)

\* handlers that call writePacket
writeOps == rawWriteOps \cup commandOps

\* a write of the last handler put some but not all bytes of its physical
\* packet on the wire
partialWrite ==
    /\ last.op \in writeOps
    /\ \E i \in 1..Len(last.writes) :
          0 < last.writes[i].n /\ last.writes[i].n < 4 + last.writes[i].size

\* C10: whenever writePacket returns after a write that put some but not all
\* bytes of a physical packet on the wire (0 < n < 4 + chunk length), the
\* connection has been torn down and is broken.
C10_PartialWriteTearsDown == partialWrite => (closed /\ isBroken /\ last.err # nil)

\* a short write without an error on a connection that was open
C10_Witness ==
    /\ partialWrite
    /\ last.op = "writePacket"
    /\ ~last.closed0
    /\ last.canceled0 = nil
    /\ last.err = ErrInvalidConn
    /\ closed

\* the last handler failed on the socket: readNext failed, the writer
\* reported an error, or a select of writePacket saw the close signal
ioFailure ==
    \/ last.op = "readPacket" /\ last.ioerr
    \/ /\ last.op \in writeOps
       /\ \/ last.closech
          \/ last.writes # <<>> /\ last.writes[Len(last.writes)].err

\* C11: whenever the canceled slot holds a cancellation error at the moment
\* readPacket or writePacket fails (socket error, or the close signal observed
\* while waiting on the writer channels), the error returned is that
\* cancellation error and not ErrInvalidConn.
C11_CancelPrecedence ==
    (ioFailure /\ canceled # nil) => last.err = canceled

\* operation n is blocked in readPacket, the server never replies, and the
\* context whose handle it sent to the watcher has been cancelled
blockedCancelled(n) ==
    /\ fpc = "read" /\ opn = n /\ silent
    /\ ops[n].reg /\ ops[n].ctx = "done"

\* C12: a context-bearing command that is blocked waiting for a reply which
\* never arrives, and whose context is cancelled, eventually returns the
\* cancellation cause (not an I/O error) from a connection the watcher has
\* torn down and that is broken from then on.
C12_CancelUnblocks ==
    \A n \in 1..MaxOps :
        blockedCancelled(n) ~> [](ops[n].res = ctxCanceled /\ isBroken)

\* C13: when the finished signal of the handle it watches fires, the watcher
\* goes back to waiting for the next handle without touching the connection;
\* and once the connection is closed the watcher eventually exits, whether it
\* was waiting for a handle or watching one.
C13_WatcherLifeCycle ==
    /\ [][watchFinished => (wpc' = "recv" /\ closed' = closed /\ canceled' = canceled)]_vars
    /\ closed ~> (wpc = "exited")

\* an operation on the connection: a command, or an operation of rows that are
\* still bound to it
onConnection == rlast.op \in {"Ping", "Query"} \/ (rlast.op # "none" /\ rlast.rs0.mc)

\* the error tells the pool that the connection is bad
badConnection(e) == e \in {ErrBadConn, ErrInvalidConn} \/ (e # nil /\ e = rlast.canceled0)

\* an operation that began on a broken connection returned the bad-connection
\* sentinel without reading or writing
refusedWithoutIO ==
    (rlast.closed0 /\ onConnection) =>
        /\ badConnection(rlast.err)
        /\ rlast.reads = 0 /\ rlast.writes = <<>>

errRead == rlast.lastp # <<>> /\ rlast.lastp[1] = iERR

\* its error number
errnoRead == rlast.lastp[2] + rlast.lastp[3] * 256

\* the error that makes a connection configured with RejectReadOnly give up
readOnlyRejected == errnoRead \in {1792, 1290} /\ rejectReadOnly

\* C15: an ERR packet of the server, other than 1792 or 1290 under
\* RejectReadOnly, is returned as a server error with the packet's number, SQL
\* state and message; the connection is neither closed nor broken, its
\* counter has only counted the packets read, and when the ERR packet was the
\* whole reply the status flags are those from before.
C15_ServerErrorKeepsUsable ==
    (errRead /\ ~readOnlyRejected) =>
        /\ rlast.err = MySQLError
        /\ rlast.me = [Number |-> errnoRead, SQLState |-> SubSeq(rlast.lastp, 5, 9),
                       Message |-> Drop(rlast.lastp, 9)]
        /\ ~closed /\ ~isBroken
        /\ sequence = (rlast.rseq0 + rlast.reads) % 256
        /\ rlast.reads = 1 => status = rlast.status0

C15_Witness ==
    /\ errRead /\ rejectReadOnly /\ errnoRead = 1064
    /\ rlast.op = "Query" /\ rlast.reads > 1 /\ rlast.err = MySQLError

\* C16 as stated: after a command returned a server error the connection is
\* broken, and the next command returns the bad-connection sentinel.
C16_Original ==
    /\ rlast.err = MySQLError => isBroken
    /\ (rlast.prev = MySQLError /\ rlast.op \in {"Ping", "Query"}) =>
           badConnection(rlast.err)

\* C16 (amended): after a command returned a server error the connection is
\* not broken, and the next command is written to the server instead of being
\* refused, unless the connection was closed in between.
C16_ServerErrorNotBroken ==
    /\ rlast.err = MySQLError => ~isBroken
    /\ (rlast.prev = MySQLError /\ rlast.op \in {"Ping", "Query"} /\ ~rlast.closed0) =>
           rlast.writes # <<>>

C16_Witness ==
    /\ rlast.prev = MySQLError /\ rlast.op = "Ping"
    /\ rlast.err = nil /\ rlast.reads = 1 /\ ~closed

\* C17: an ERR packet with number 1792 or 1290 on a connection configured
\* with RejectReadOnly closes the connection and driver.ErrBadConn is returned
\* instead of the server error; any other ERR packet, or the same without
\* RejectReadOnly, leaves the connection open.
C17_RejectReadOnly ==
    errRead =>
        IF readOnlyRejected
        THEN closed /\ isBroken /\ rlast.err = ErrBadConn /\ rlast.me = noError
        ELSE ~closed /\ rlast.err = MySQLError

C17_Witness ==
    /\ errRead /\ readOnlyRejected /\ errnoRead = 1792
    /\ closed /\ ~rlast.closed0 /\ rlast.err = ErrBadConn

C17_WitnessOpen ==
    /\ errRead /\ ~rejectReadOnly /\ errnoRead = 1290
    /\ ~closed /\ rlast.err = MySQLError

\* the status flags say that another result follows
moreResults == (status \div statusMoreResultsExists) % 2 = 1

\* C18: when rows.Close returns nil and the connection is not broken, every
\* packet of the current and of all following result sets has been consumed
\* and the status flags no longer have MORE_RESULTS_EXISTS, whatever number of
\* rows was read before.
C18_CloseDrains ==
    (rlast.op = "Close" /\ rlast.err = nil /\ ~isBroken) =>
        inbound = <<>> /\ ~moreResults

\* the buffer was busy when the last operation of the buffer began
busyBuffer == blast.length0 > 0

\* C19: while the buffer's length counter is above 0, takeBuffer, takeSmallBuffer,
\* takeCompleteBuffer and store fail with ErrBusyBuffer and leave the buffer as it
\* was; the command that took the busy buffer returns an error, has written
\* nothing and has not closed the connection.
C19_BusyBuffer ==
    /\ (busyBuffer /\ blast.op \in {"takeBuffer", "takeSmallBuffer", "takeCompleteBuffer", "store"})
         => /\ blast.err = ErrBusyBuffer
            /\ bufcap = blast.cap0
            /\ buflength = blast.length0
    /\ (busyBuffer /\ blast.op = "writeCommandPacketStr")
         => /\ blast.err # nil
            /\ blast.writes = <<>>
            /\ closed = blast.closed0
            /\ bufcap = blast.cap0

\* a command took the busy buffer of an open connection, and store was refused
C19_Witness ==
    /\ busyBuffer
    /\ ~closed
    /\ \/ blast.op = "writeCommandPacketStr" /\ blast.err = errBadConnNoWrite
       \/ blast.op = "store" /\ blast.n > blast.cap0 /\ blast.err = ErrBusyBuffer

\* C20: store adopts buf exactly when its capacity is larger than the primary
\* buffer's and at most maxCachedBufSize; otherwise the primary buffer is
\* unchanged, so store never makes it larger than maxCachedBufSize.
C20_StoreCachedCap ==
    (blast.op = "store" /\ blast.err = nil)
        => /\ bufcap = IF blast.n > blast.cap0 /\ blast.n <= maxCachedBufSize
                       THEN blast.n ELSE blast.cap0
           /\ (blast.cap0 <= maxCachedBufSize => bufcap <= maxCachedBufSize)

\* the capability flags a greeting carries in its last two bytes
greetingFlags(data) == data[Len(data) - 1] + data[Len(data)] * 256

\* readHandshakePacket has read a greeting that does not advertise CLIENT_SSL
\* on a connection configured with TLS
noSSLGreeting ==
    /\ hs.tls0
    /\ hs.pc \notin {"idle", "dial", "greeting"}
    /\ hs.got # <<>>
    /\ hs.got[1] # iERR
    /\ ~hasFlag(greetingFlags(hs.got), clientSSL)

\* what follows such a greeting: ErrNoTLS and nothing sent, or with the
\* fallback allowed TLS dropped and the handshake going on
noSSLOutcome ==
    IF hs.fallback
    THEN /\ ~hs.tls
         /\ hs.pc = "respond" => hs.err = nil
         /\ \A i \in 1..Len(hs.sent) : ~hs.sent[i].tls
    ELSE /\ hs.pc = "failed"
         /\ hs.err = ErrNoTLS
         /\ hs.sent = <<>>

\* no packet longer than the SSL request was sent in plaintext on a connection
\* configured with TLS and without the fallback
noPlaintextResponse ==
    (hs.tls0 /\ ~hs.fallback)
        => \A i \in 1..Len(hs.sent) :
             ~hs.sent[i].tls => Len(hs.sent[i].req) <= Len(sslRequest(0))

\* C21 as stated: with TLS configured, a greeting without CLIENT_SSL fails the
\* handshake with ErrNoTLS, or with the fallback allowed drops TLS and goes on
\* in plaintext; no handshake response goes out in plaintext when TLS is
\* configured and the fallback is not allowed.
C21_Original ==
    /\ noSSLGreeting => noSSLOutcome
    /\ noPlaintextResponse

\* C21: the same for a greeting that passed the checks made before the one for
\* CLIENT_SSL (protocol version, CLIENT_PROTOCOL_41); a greeting without
\* CLIENT_PROTOCOL_41 fails the handshake with ErrOldProtocol whatever the
\* fallback says, and nothing is sent.
C21_NoTLSOffered ==
    /\ (noSSLGreeting /\ hs.got[1] >= minProtocolVersion
         /\ hasFlag(greetingFlags(hs.got), clientProtocol41)) => noSSLOutcome
    /\ (noSSLGreeting /\ hs.got[1] >= minProtocolVersion
         /\ ~hasFlag(greetingFlags(hs.got), clientProtocol41))
          => (hs.pc = "failed" /\ hs.err = ErrOldProtocol /\ hs.sent = <<>>)
    /\ noPlaintextResponse

\* the server did not offer TLS, the fallback is allowed, and the handshake
\* response went out in plaintext
C21_Witness ==
    /\ noSSLGreeting
    /\ hs.fallback
    /\ hs.pc = "auth"
    /\ Len(hs.sent) = 1
    /\ ~hs.sent[1].tls
    /\ hs.sent[1].n = Len(hs.sent[1].req)

\* the reply to the handshake response reached the framing buffer as the
\* server framed it
replyIntact == hs.replied # <<>> /\ ~hs.stolen

C23_SocketOwnership ==
    /\ ~hs.direct
    /\ ~(hs.pc = "tlsHandshake" /\ hs.loop = "raw")
    /\ ~hs.stolen

\* the handles that are registered with the watcher and not finished
liveHandles == {n \in 1..MaxOps : ops[n].reg /\ ~ops[n].fin}

\* C24: at most one handle is registered and not finished, the channel holds
\* at most one handle, and every operation that registered a handle has
\* signalled finished when it has returned, whatever its result, so the next
\* operation registers only after that.
C24_OneOperation ==
    /\ Cardinality(liveHandles) <= 1
    /\ liveHandles \subseteq {opn}
    /\ Len(chCtx) <= chCtxCap
    /\ fpc \in {"idle", "watchCancel", "ctxCheck"} => liveHandles = {}

\* the second operation has registered its handle after the first, which had
\* registered one too, failed
C24_Witness ==
    /\ opn = 2
    /\ ops[1].reg
    /\ ops[1].fin
    /\ ops[1].res \notin {nil, "none"}
    /\ liveHandles = {2}

\* the COM_STMT_EXECUTE packets among the write requests of the last handler
executePackets ==
    {k \in 1..Len(last.writes) :
        /\ Len(last.writes[k].req) >= 14
        /\ last.writes[k].req[5] = comStmtExecute
        /\ SubSeq(last.writes[k].req, 6, 9) = stmtIdBytes}

\* argument i (from 0) of the last writeExecutePacket is NULL
isNullArg(i) == last.arg[1][i + 1].kind \in {"null", "nilbytes"}

\* the value bytes of the arguments from index i on
RECURSIVE valueBytes(_, _)
valueBytes(args, longDataSize) ==
    IF args = <<>> THEN <<>>
    ELSE (CASE Head(args).kind = "int" -> uint64ToBytes(Head(args).v)
            [] Head(args).kind = "bytes" /\ Head(args).v < longDataSize
                 -> <<Head(args).v>> \o Payload(Head(args).v)
            [] OTHER -> <<>>)
         \o valueBytes(Tail(args), longDataSize)

\* C25: in the COM_STMT_EXECUTE packet of a call with n > 0 arguments the NULL
\* bitmap has (n+7)/8 bytes, bit i is set exactly when argument i is NULL, a
\* NULL argument has the type bytes 0x06 0x00 and no value bytes, the
\* new-params-bound flag is 1; args [NULL, 42] give the bitmap 0x01, the flag
\* 0x01, the types 0x06 0x00 0x08 0x00 and the 8 little-endian bytes of 42.
C25_NullBitmap ==
    (last.op = "writeExecutePacket" /\ Len(last.arg[1]) > 0)
        => \A k \in executePackets :
             LET p == Drop(last.writes[k].req, 4)
                 n == Len(last.arg[1])
                 maskLen == (n + 7) \div 8
                 types == 10 + maskLen + 1
             IN  /\ p[10 + maskLen + 1] = 1
                 /\ \A i \in 0..(n - 1) :
                       /\ ((p[10 + (i \div 8) + 1] \div Pow2(i % 8)) % 2 = 1) <=> isNullArg(i)
                       /\ (p[types + 2 * i + 1] = fieldTypeNULL) <=> isNullArg(i)
                       /\ p[types + 2 * i + 2] = 0
                 /\ \A j \in (n % 8)..7 : n % 8 # 0 => (p[10 + maskLen] \div Pow2(j)) % 2 = 0
                 /\ Drop(p, types + 2 * n) = valueBytes(last.arg[1], 64)
                 /\ last.arg[1] = <<argNull, argInt(42)>>
                       => Drop(p, 10) = <<1, 1, 6, 0, 8, 0, 42, 0, 0, 0, 0, 0, 0, 0>>

\* the execute packet of a call whose ninth argument is NULL went out
C25_Witness ==
    /\ last.op = "writeExecutePacket"
    /\ Len(last.arg[1]) = 9
    /\ last.err = nil
    /\ executePackets = {1}

\* the bytes of argument i (from 0) carried by the COM_STMT_SEND_LONG_DATA
\* packets among the write requests, in the order of the requests
RECURSIVE longData(_, _)
longData(writes, i) ==
    IF writes = <<>> THEN <<>>
    ELSE (IF Len(Head(writes).req) >= 11 /\ Head(writes).req[5] = comStmtSendLongData
             /\ Head(writes).req[10] = i
          THEN Drop(Head(writes).req, 11) ELSE <<>>)
         \o longData(Tail(writes), i)

\* the COM_STMT_SEND_LONG_DATA packets among the write requests
longDataPackets ==
    {k \in 1..Len(last.writes) :
        Len(last.writes[k].req) >= 11 /\ last.writes[k].req[5] = comStmtSendLongData}

\* the threshold of the last writeExecutePacket
longDataSizeOf(n) ==
    IF maxAllowedPacket \div (n + 1) < 64 THEN 64 ELSE maxAllowedPacket \div (n + 1)

\* the payload length of the execute packet for these arguments
executeSize(args, thr) ==
    LET n == Len(args)
    IN  10 + (IF n > 0 THEN ((n + 7) \div 8) + 1 + 2 * n + Len(valueBytes(args, thr)) ELSE 0)

\* C26: on a healthy socket, when the execute packet itself fits
\* maxAllowedPacket, a byte-slice argument shorter than
\* max(64, maxAllowedPacket/(n+1)) is embedded in the execute packet as a
\* length-encoded string; a longer one is sent complete and in order in
\* COM_STMT_SEND_LONG_DATA packets, each within maxAllowedPacket, all written
\* before the execute packet, which is written and carries no value bytes for it.
C26_LongData ==
    (/\ last.op = "writeExecutePacket"
     /\ healthy
     /\ Len(last.arg[1]) = last.arg[2]
     /\ \A j \in 1..Len(last.arg[1]) : last.arg[1][j].kind # "other"
     /\ executeSize(last.arg[1], longDataSizeOf(Len(last.arg[1]))) <= maxAllowedPacket)
        => LET args == last.arg[1]
               n == Len(args)
               thr == longDataSizeOf(n)
           IN  /\ last.err = nil
               /\ Cardinality(executePackets) = 1
               /\ \A k \in executePackets :
                     /\ n > 0 => Drop(last.writes[k].req, 4 + 10 + ((n + 7) \div 8) + 1 + 2 * n)
                                   = valueBytes(args, thr)
                     /\ \A l \in longDataPackets : l < k
               /\ \A l \in longDataPackets :
                     /\ Len(last.writes[l].req) - 4 <= maxAllowedPacket
                     /\ headerPktLen(last.writes[l].req) = Len(last.writes[l].req) - 4
               /\ \A i \in 0..(n - 1) :
                     longData(last.writes, i)
                       = IF args[i + 1].kind = "bytes" /\ args[i + 1].v >= thr
                         THEN Payload(args[i + 1].v) ELSE <<>>

\* the same on a connection whose maxAllowedPacket is below maxPacketSize, where
\* no packet has to be split
longDataUnsplit == maxAllowedPacket < maxPacketSize => C26_LongData

\* the last readRow of a binary result set received a row of the server
binaryRowRead ==
    /\ dec.op = "readRow"
    /\ dec.binary
    /\ ~dec.ioerr
    /\ dec.vals # <<>>

\* C27: the binary decoder returns no error for a row of k columns and consumes
\* exactly 1 + ceil((k+2)/8) + the sum of the sizes of the values bytes, which
\* is the whole row packet; a column whose bit i+2 of the NULL bitmap is set is
\* NULL and consumes nothing; every other column is decoded from its own bytes.
C27_BinaryRowConsumed ==
    binaryRowRead
        => LET k == Len(dec.columns)
           IN  /\ dec.err = nil
               /\ dec.pos = 1 + ((k + 2 + 7) \div 8) + Len(valuesOf(dec.vals))
               /\ dec.pos = Len(dec.data)
               /\ Len(dec.dest) = k
               /\ \A i \in 0..(k - 1) :
                     LET byte == dec.data[2 + ((i + 2) \div 8)]
                         set == (byte \div Pow2((i + 2) % 8)) % 2 = 1
                         v == dec.vals[i + 1]
                     IN  /\ set <=> v.null
                         /\ set => dec.dest[i + 1] = destNil
                         /\ ~set => LET r == binaryColumn(v.bytes, dec.columns[i + 1], 0)
                                    IN  /\ r.pos = Len(v.bytes)
                                        /\ dec.dest[i + 1] = r.v

\* seven columns, the last of them NULL by the first bit of the second byte of
\* the bitmap, the first not NULL
C27_Witness ==
    /\ binaryRowRead
    /\ Len(dec.columns) = 7
    /\ dec.vals[7].null
    /\ ~dec.vals[1].null
    /\ dec.data[3] = 1
    /\ dec.dest[7] = destNil
    /\ dec.dest[1] = toInt64(<<200>>, TRUE)
    /\ dec.err = nil
    /\ dec.pos = Len(dec.data)

\* the last readRow of a text result set received a row of the server
textRowRead ==
    /\ dec.op = "readRow"
    /\ ~dec.binary
    /\ ~dec.ioerr
    /\ dec.vals # <<>>

\* column i (from 1) of the row came back as the integer the server formatted
parsedBack(i) ==
    /\ Len(dec.dest) >= i
    /\ dec.dest[i] # destNil
    /\ dec.dest[i].kind \in {"int64", "uint64"}
    /\ dec.dest[i].neg = dec.vals[i].neg
    /\ dec.dest[i].mag = dec.vals[i].mag

isInteger(v) == ~v.null /\ "mag" \in DOMAIN v

\* C28: a text row whose integer columns hold values of the range of their
\* type, signed or unsigned by the UNSIGNED flag, is decoded without error and
\* every integer comes back as the value the server formatted.
C28_TextIntegers ==
    textRowRead
        => /\ dec.err = nil
           /\ \A i \in 1..Len(dec.columns) : isInteger(dec.vals[i]) => parsedBack(i)

\* the same for rows without an unsigned TINY to LONG value above the greatest
\* int32
fitsInt32(i) ==
    \/ ~isInteger(dec.vals[i])
    \/ dec.columns[i].fieldType = fieldTypeLongLong
    \/ dec.vals[i].neg
    \/ digitsLess(dec.vals[i].mag, intCutoff(32))
textIntegersInt32 ==
    (textRowRead /\ \A i \in 1..Len(dec.columns) : fitsInt32(i)) => C28_TextIntegers

\* the last readColumns read its packets from a sound socket
columnsRead ==
    /\ dec.op = "readColumns"
    /\ ~dec.ioerr

\* C29: readColumns(count) returns the column vector, and no error, exactly
\* when count definitions precede the EOF packet; with fewer or more it
\* returns an error without indexing past the end of the vector.
C29_ColumnCount ==
    columnsRead
        => /\ dec.err # panicOutOfRange
           /\ dec.err = nil <=> Len(dec.vals) = dec.count
           /\ dec.err = nil => Len(dec.columns) = dec.count

\* the same when the server sends no more definitions than count
columnsNotMore == Len(dec.vals) <= dec.count => C29_ColumnCount

\* the last readResultSetHeaderPacket received the first packet of a reply
headerRead ==
    /\ dec.op = "readResultSetHeaderPacket"
    /\ ~dec.ioerr

\* the entries of the result before the last one are those it had before
earlierResultsKept ==
    /\ Len(dec.result.affectedRows) = Len(dec.result0.affectedRows) + 1
    /\ Len(dec.result.insertIds) = Len(dec.result0.insertIds) + 1
    /\ SubSeq(dec.result.affectedRows, 1, Len(dec.result0.affectedRows))
          = dec.result0.affectedRows
    /\ SubSeq(dec.result.insertIds, 1, Len(dec.result0.insertIds)) = dec.result0.insertIds

lastResult ==
    <<dec.result.affectedRows[Len(dec.result.affectedRows)],
      dec.result.insertIds[Len(dec.result.insertIds)]>>

\* C30: readResultSetHeaderPacket goes by the first byte of the packet: an OK
\* packet sets the last result entry and the status flags and gives 0 columns
\* and no error; an ERR packet gives the server's error; 0xFB hands the file
\* name to the infile handler and gives its result; any other packet gives its
\* length-encoded integer as the column count and leaves the status alone.
\* After an OK packet the status has MORE_RESULTS_EXISTS exactly when the
\* packet carried it.
C30_HeaderClassified ==
    headerRead
        => LET data == dec.data
               n == readLengthEncodedInteger(Drop(data, 1)).n
               m == readLengthEncodedInteger(Drop(data, 1 + n)).n
               carried == data[2 + n + m] + 256 * data[3 + n + m]
           IN  /\ earlierResultsKept
               /\ data[1] = iOK =>
                     /\ dec.err = nil
                     /\ dec.pos = 0
                     /\ status = carried
                     /\ hasFlag(status, statusMoreResultsExists)
                           <=> hasFlag(carried, statusMoreResultsExists)
                     /\ lastResult = <<readLengthEncodedInteger(Drop(data, 1)).num,
                                       readLengthEncodedInteger(Drop(data, 1 + n)).num>>
               /\ data[1] = iERR =>
                     /\ dec.err = MySQLError
                     /\ dec.me.Number = data[2] + 256 * data[3]
                     /\ dec.pos = 0
                     /\ status = dec.status0
                     /\ lastResult = <<0, 0>>
               /\ data[1] = iLocalInFile =>
                     /\ dec.err = inFileResult
                     /\ dec.vals = Drop(data, 1)
                     /\ dec.pos = 0
                     /\ status = dec.status0
               /\ data[1] \notin {iOK, iERR, iLocalInFile} =>
                     /\ dec.err = nil
                     /\ dec.pos = readLengthEncodedInteger(data).num
                     /\ status = dec.status0
                     /\ lastResult = <<0, 0>>

\* the second statement of a reply: 300 affected rows, insert id 5, more results
\* follow; the entry of the first statement is kept
C30_Witness ==
    /\ headerRead
    /\ dec.data = <<iOK, 252, 44, 1, 5, 10, 0, 0, 0>>
    /\ dec.result0 = [affectedRows |-> <<3>>, insertIds |-> <<7>>]
    /\ dec.result = [affectedRows |-> <<3, 300>>, insertIds |-> <<7, 5>>]
    /\ dec.status0 = statusLast
    /\ status = statusMore
    /\ dec.err = nil
    /\ dec.pos = 0

\* the last write of the last handler failed: the writer reported an error, or
\* wrote less than the request; no cancellation is recorded and the watcher is
\* not tearing the connection down
lastWrite == last.writes[Len(last.writes)]
writeFailure ==
    /\ last.op \in writeOps
    /\ last.writes # <<>>
    /\ ~last.closed0
    /\ lastWrite.err \/ lastWrite.n < Len(lastWrite.req)
    /\ canceled = nil
    /\ wpc = "select"

\* the failed write was the first physical packet of its logical packet
firstPhysical == \A j \in 1..(Len(last.writes) - 1) : last.writes[j].call # lastWrite.call

\* the writer reported an error and no byte written
nothingWritten == lastWrite.err /\ lastWrite.n = 0

\* C31: a write that fails with an error and zero bytes on the first physical
\* packet of a logical packet makes writePacket return errBadConnNoWrite with
\* the connection left open; every other failed write not attributed to a
\* cancellation tears the connection down and returns ErrInvalidConn.
C31_NoWriteOnlyFirst ==
    writeFailure
        => IF nothingWritten /\ firstPhysical
           THEN last.err = errBadConnNoWrite /\ ~closed
           ELSE last.err = ErrInvalidConn /\ closed

\* the same without the restriction to the first physical packet: zero bytes
\* and an error on any physical packet
noWriteAnyPacket ==
    writeFailure
        => IF nothingWritten
           THEN last.err = errBadConnNoWrite /\ ~closed
           ELSE last.err = ErrInvalidConn /\ closed

\* the last operation was Next, and it read no packet and tried no read
nextCalled == rlast.op = "Next"
noPacketRead == rlast.reads = 0 /\ ~rlast.ioerr

\* C32: Next decides in a fixed order, before any read: a detached rows object
\* gives io.EOF; otherwise a recorded cancellation cause is returned; otherwise
\* a broken connection gives ErrInvalidConn; only otherwise is a packet read.
\* A server ERR packet read by Next detaches the rows object, and Next on a
\* detached rows object returns io.EOF.
C32_NextOrder ==
    nextCalled =>
        /\ IF ~rlast.rs0.mc THEN rlast.err = ioEOF /\ noPacketRead
           ELSE IF rlast.canceled0 # nil THEN rlast.err = rlast.canceled0 /\ noPacketRead
           ELSE IF rlast.closed0 THEN rlast.err = ErrInvalidConn /\ noPacketRead
           ELSE rlast.rs0.done \/ ~noPacketRead
        /\ errRead => ~rows.mc
        /\ ~noPacketRead => rlast.rs0.mc /\ rlast.canceled0 = nil /\ ~rlast.closed0

\* Next on an attached rows object of a closed connection with a recorded
\* cancellation cause returned the cause
C32_Witness ==
    /\ nextCalled /\ rlast.rs0.mc /\ rlast.closed0
    /\ rlast.canceled0 = ctxCanceled /\ rlast.err = ctxCanceled

\* Next read an ERR packet and detached the rows object; the Next after a
\* server error found the rows object detached and returned io.EOF
nextAfterServerError ==
    /\ nextCalled /\ rlast.prev = MySQLError /\ ~rlast.rs0.mc
    /\ rlast.err = ioEOF /\ noPacketRead
nextReadServerError ==
    nextCalled /\ errRead /\ rlast.err = MySQLError /\ rlast.rs0.mc /\ ~rows.mc
nextOfBrokenConn ==
    nextCalled /\ rlast.rs0.mc /\ rlast.closed0 /\ rlast.canceled0 = nil

\* the payloads of the packets in a stream of small packets
RECURSIVE payloads(_)
payloads(in) ==
    IF in = <<>> THEN <<>>
    ELSE <<SubSeq(in, 5, 4 + in[1])>> \o payloads(Drop(in, 4 + in[1]))

isEOF(p) == p[1] = iEOF /\ Len(p) = 5
moreIn(st) == (st \div statusMoreResultsExists) % 2 = 1

\* the packets up to the EOF packet that ends the rows: n is their number
RECURSIVE rowsEnd(_, _)
rowsEnd(ps, n) ==
    IF ps = <<>> \/ ps[1][1] = iERR THEN [found |-> FALSE, n |-> n, status |-> 0]
    ELSE IF isEOF(ps[1])
    THEN [found |-> TRUE, n |-> n + 1, status |-> readStatus(Drop(ps[1], 3))]
    ELSE rowsEnd(Tail(ps), n + 1)

\* what the server's stream asks of NextResultSet, told from the packets that
\* wait: after n packets, results without columns (OK packets) are passed
\* while the status has MORE_RESULTS_EXISTS; the end is "columns" at the first
\* header with a column count (the header, the definitions and their EOF
\* packet are counted), or "eof" when the status has the flag no longer
RECURSIVE resultsAhead(_, _, _)
resultsAhead(ps, st, n) ==
    IF ~moreIn(st) THEN [end |-> "eof", n |-> n]
    ELSE IF ps = <<>> THEN [end |-> "short", n |-> n]
    ELSE IF ps[1][1] = iOK
    THEN resultsAhead(Tail(ps), readStatus(SubSeq(ps[1], 4, 5)), n + 1)
    ELSE IF ps[1][1] \in {iERR, iLocalInFile} THEN [end |-> "error", n |-> n + 1]
    ELSE [end |-> "columns", n |-> n + 1 + ps[1][1] + 1]

\* the same for a rows object whose rows were or were not read to their end
streamAhead ==
    LET ps == payloads(rlast.in0) IN
    IF rlast.rs0.done THEN resultsAhead(ps, rlast.status0, 0)
    ELSE the({ IF e.found THEN resultsAhead(Drop(ps, e.n), e.status, e.n)
               ELSE [end |-> "error", n |-> e.n]
               : e \in {rowsEnd(ps, 0)} })

\* NextResultSet was called on an attached rows object of an open
\* connection, and no read failed
nextResultSetCalled ==
    /\ rlast.op = "NextResultSet"
    /\ rlast.rs0.mc /\ ~rlast.closed0 /\ ~rlast.ioerr

\* the server has packets on the way whenever the rows object expects some:
\* rows not read to their end, or a status with MORE_RESULTS_EXISTS
serverOwes == (~rows.done \/ moreResults) => inbound # <<>>

\* C33: NextResultSet drains the unread rows of the current result set, passes
\* every following result without columns, and either stops at the first result
\* set with columns, having read its header, its column definitions and their
\* EOF packet and nothing more, or, when the status has MORE_RESULTS_EXISTS no
\* longer, detaches the rows object and returns io.EOF without reading a
\* further packet; on an attached rows object it never waits for a packet the
\* server does not send.
C33_NextResultSet ==
    /\ (nextResultSetCalled /\ streamAhead.end = "columns")
          => /\ rlast.err = nil
             /\ rlast.reads = streamAhead.n
             /\ rows.mc /\ ~rows.done
             /\ isEOF(rlast.lastp)
    /\ (nextResultSetCalled /\ streamAhead.end = "eof")
          => /\ rlast.err = ioEOF
             /\ rlast.reads = streamAhead.n
             /\ ~rows.mc /\ ~moreResults
    /\ (nextResultSetCalled /\ rlast.err \in {nil, ioEOF})
          => streamAhead.end = (IF rlast.err = nil THEN "columns" ELSE "eof")
    /\ (rows.open /\ rows.mc /\ ~closed /\ serverOwes) => ENABLED NextResultSet(0)

\* NextResultSet drained a row and its EOF packet and stopped at the result
\* set that followed, after its header, column definition and EOF packet
C33_Witness ==
    /\ nextResultSetCalled /\ ~rlast.rs0.done
    /\ streamAhead.end = "columns" /\ rlast.reads >= 5
    /\ rlast.err = nil /\ rows.mc

\* NextResultSet passed a result without columns and found no further result
nextResultSetEnds ==
    /\ nextResultSetCalled /\ streamAhead.end = "eof" /\ rlast.reads >= 2
    /\ rlast.err = ioEOF /\ ~rows.mc /\ rlast.lastp[1] = iOK

\* Next was called once more on a rows object whose result set was done
nextAfterDone == dec.op = "Next"

\* C34: once the EOF packet that ends the rows was read, Next returns io.EOF
\* and reads no packet, for text rows and for binary rows, also when the
\* status has MORE_RESULTS_EXISTS and the rows object is still attached: the
\* packets of the next result stay on the socket.
C34_DoneNextReadsNothing ==
    nextAfterDone =>
        /\ dec.err = ioEOF
        /\ dec.count = 0 /\ ~dec.ioerr
        /\ moreIn(dec.status0) => payloads(inbound) = <<dec.data>>

\* the same for text rows only, and for rows objects that the EOF packet
\* detached
textDoneNextReadsNothing ==
    (nextAfterDone /\ (~dec.binary \/ ~moreIn(dec.status0))) =>
        /\ dec.err = ioEOF
        /\ dec.count = 0 /\ ~dec.ioerr
        /\ moreIn(dec.status0) => payloads(inbound) = <<dec.data>>

\* binary rows: the header of the next result was read as a row
binaryNextReadsHeader ==
    /\ nextAfterDone /\ dec.binary /\ moreIn(dec.status0)
    /\ dec.count = 1 /\ inbound = <<>> /\ dec.err # ioEOF

\* Close was called on an attached rows object of a connection that was not
\* broken
closeCalled == rlast.op = "Close" /\ rlast.rs0.mc /\ ~rlast.closed0

\* C35: on every return path of rows.Close on an attached rows object of a
\* connection that is not broken, also when draining fails, finish was called
\* and the rows object is detached; Close on a detached rows object reads
\* nothing and returns nil.
C35_CloseAlwaysDetaches ==
    /\ closeCalled => rlast.fin /\ ~rows.mc
    /\ (rlast.op = "Close" /\ ~rlast.rs0.mc) => rlast.err = nil /\ noPacketRead

\* Close returned an error after the rows of the current result set had been
\* read to their EOF packet: discardResults failed
discardFailed ==
    /\ closeCalled /\ rlast.err # nil
    /\ \/ rlast.rs0.done
       \/ \E e \in {rowsEnd(payloads(rlast.in0), 0)} : e.found /\ rlast.reads > e.n

\* the same except where discardResults failed: there the rows object stays
\* attached and finish was not called
closeDetachesUnlessDiscardFailed ==
    /\ closeCalled => IF discardFailed THEN ~rlast.fin /\ rows.mc
                      ELSE rlast.fin /\ ~rows.mc
    /\ (rlast.op = "Close" /\ ~rlast.rs0.mc) => rlast.err = nil /\ noPacketRead

\* a server error in the header of the second result: Close returned it, the
\* connection is open and the rows object attached
closeLeftAttached ==
    /\ closeCalled /\ discardFailed /\ rlast.err = MySQLError
    /\ ~closed /\ rows.mc /\ ~rlast.fin

\* C36: watchCancel never blocks forever: whatever context-bearing operations
\* were issued before on the connection, also after a cancellation tore the
\* connection down or after the connection was closed and the watcher exited,
\* each call of watchCancel returns.
C36_WatchCancelReturns == (fpc = "watchCancel") ~> (fpc # "watchCancel")

\* the foreground is in watchCancel with a handle to send, the channel is full
\* and the watcher has exited
watchCancelStuck ==
    /\ fpc = "watchCancel" /\ ops[opn].ctx = "live"
    /\ Len(chCtx) = chCtxCap /\ wpc = "exited"

\* while the watcher has not exited, watchCancel returns
watchCancelReturnsWhileWatched ==
    (fpc = "watchCancel") ~> (fpc # "watchCancel" \/ wpc = "exited")

\* the foreground waits in one of the selects of writePacket
waitsOnWriter == lp.fg \in {"sendReq", "recvRes"}

\* C37: after closech is closed the reader loop and the writer loop both
\* terminate, their socket calls returning because the socket is torn down,
\* and a foreground writePacket that waits on the writer's request or response
\* channel returns instead of blocking forever, with ErrInvalidConn when it
\* leaves through closech.
C37_LoopsEnd ==
    /\ lp.closech ~> (lp.rl = "exited" /\ lp.wl = "exited")
    /\ (lp.closech /\ waitsOnWriter) ~> ~waitsOnWriter
    /\ [](lp.via = "closech" => lp.closech /\ lp.err = ErrInvalidConn)

\* both loops have ended, and the foreground left writePacket through closech
\* while a request of it was with the writer
C37_Witness ==
    /\ lp.closech /\ lp.rl = "exited" /\ lp.wl = "exited"
    /\ lp.fg = "idle" /\ lp.via = "closech" /\ lp.err = ErrInvalidConn
    /\ lp.writeRes # <<>>

\* the operation in flight is a PrepareContext
prepares == opn > 0 /\ ops[opn].kind = "PrepareContext"

prepareRejected ==
    /\ fpc = "idle" /\ prepares
    /\ ops[opn].res = MySQLError /\ ops[opn].fin /\ ~ops[opn].undone

\* writeExecutePacket returned before the execute packet was built, for the
\* argument count or for an argument of an unsupported type, and no
\* cancellation came in during the call
executeFailedEarly ==
    /\ last.op = "writeExecutePacket"
    /\ last.err \in {errArgCount, errConvert}
    /\ canceled = nil
    /\ wpc = "select"

\* a physical packet that carries COM_STMT_SEND_LONG_DATA
isLongData(w) == Len(w.req) >= 5 /\ w.req[5] = comStmtSendLongData

\* C39: when writeExecutePacket fails for an argument-count mismatch or for
\* an argument of an unsupported type, the call has written no packet at all
\* (no COM_STMT_SEND_LONG_DATA packet for an earlier argument either) and
\* the connection is not closed.
C39_EarlyFailureWritesNothing ==
    executeFailedEarly => last.writes = <<>> /\ closed = last.closed0

\* what the code guarantees: a count mismatch writes nothing; with an
\* unsupported type every packet written is a complete COM_STMT_SEND_LONG_DATA
\* packet of an earlier argument; the connection is left as it was
earlyFailureLeavesConnection ==
    executeFailedEarly
        => /\ closed = last.closed0
           /\ last.err = errArgCount => last.writes = <<>> /\ last.wseq = last.seq0
           /\ \A j \in 1..Len(last.writes) :
                 /\ isLongData(last.writes[j])
                 /\ ~last.writes[j].err
                 /\ last.writes[j].n = Len(last.writes[j].req)

\* the unsupported type was found after the long data of an earlier argument
\* had been sent
convertAfterLongData ==
    /\ executeFailedEarly
    /\ last.err = errConvert
    /\ last.writes # <<>>
    /\ isLongData(last.writes[1])
    /\ ~closed

====
